---- MODULE Spec2Model ----
(***************************************************************************)
(* Nova ingestion API (api/main.py): the job lifecycle, ingest-scan and    *)
(* confirm-originals handlers over the relational store and the originals  *)
(* bucket of the object storage.  Every HTTP request is one atomic step    *)
(* (requests are issued one after the other).  Each handler is an operator *)
(* giving its outcome (status code, body, tables afterwards) in the        *)
(* current state, and an action that applies that outcome.                 *)
(*                                                                         *)
(* Strings are sequences of one-character strings, so that building a      *)
(* path and testing a prefix are computed, not assumed.                    *)
(***************************************************************************)
EXTENDS Integers, Sequences, FiniteSets, TLC

\* ------------------------------------------------------------------ bounds
MaxSlot == 1        \* slot indexes of the requests are 0..MaxSlot
MaxClock == 1       \* the server clock runs over 0..MaxClock (SpecTimed)
MaxJobs == 2        \* jobs started in SpecJobs

\* --------------------------------------------------------------- constants
\* Python's None / SQL NULL.
NULL == -1

\* An Optional[str] that is None.
NoPath == <<>>

\* device_id of a job started without a device_name (None).
NoDevice == <<>>

DEVICE_API_KEY == "secret"

DeviceKeys == {DEVICE_API_KEY, "wrong"}

ORIGINALS_BUCKET == "diamond-images"

PREVIEWS_BUCKET == "diamond-previews"

acme == <<"a", "c">>

beta == <<"b", "e">>

ghost == <<"g", "h">>

\* The slugs a request may carry: two provisioned orgs and one unknown.
OrgSlugs == {acme, beta, ghost}

RingLabels == {<<"A">>}

SlotIndexes == 0..MaxSlot

ImageTypes == {"UV_FREE", "ASET"}

\* image_types of a confirm-originals request: a list without repetition.
ImageTypeLists == {<<"UV_FREE">>, <<"ASET">>, <<"UV_FREE", "ASET">>}

\* An absent (None or empty) device_name: `if payload.device_name` is false.
NoName == ""

DeviceNames == {NoName, "Scanner-1"}

\* ----------------------------------------------------------------- strings
Digit(d) ==
    CASE d = 0 -> "0" [] d = 1 -> "1" [] d = 2 -> "2" [] d = 3 -> "3"
      [] d = 4 -> "4" [] d = 5 -> "5" [] d = 6 -> "6" [] d = 7 -> "7"
      [] d = 8 -> "8" [] d = 9 -> "9"

RECURSIVE Str(_)
\* Python's str(int) for n >= 0.
Str(n) == IF n < 10 THEN <<Digit(n)>> ELSE Str(n \div 10) \o <<Digit(n % 10)>>

\* str.startswith
StartsWith(s, p) == Len(p) <= Len(s) /\ SubSeq(s, 1, Len(p)) = p

Slash == <<"/">>

SlotPrefix == <<"s", "l", "o", "t", "_">>

UvFreeSuffix == <<"_", "u", "v", "_", "f", "r", "e", "e", ".", "j", "p", "g">>

AsetSuffix == <<"_", "a", "s", "e", "t", ".", "j", "p", "g">>

UvFreeThumbSuffix ==
    <<"_", "u", "v", "_", "f", "r", "e", "e", "_", "t", "h", "u", "m", "b", ".", "j", "p", "g">>

AsetThumbSuffix ==
    <<"_", "a", "s", "e", "t", "_", "t", "h", "u", "m", "b", ".", "j", "p", "g">>

\* The n-th id uuid.uuid4() hands out (collisions of uuid4 are not modelled).
Uuid(n) == <<"j">> \o Str(n)

\* The job ids a request may carry: the id of the job Spec follows, and
\* Uuid(0), which no job has.
JobIdInputs == {Uuid(0), Uuid(1)}

VARIABLES
    orgs,            \* table orgs: [id, slug]
    devices,         \* table devices: [id, org_id, name]
    jobs,            \* table jobs
    rings,           \* table rings: [id, job_id, ring_label]
    diamonds,        \* table diamonds: [id, job_id, ring_id, slot_index]
    diamond_images,  \* table diamond_images
    storage,         \* paths of the objects in the originals bucket
    clock,           \* the server's clock
    inflight,        \* the ingest-scan requests being handled, by worker
    queue,           \* the device's queue file: a list of work items
    eng,             \* the device's run of main(): its position and locals
    net,             \* the device's connectivity
    everQueued       \* the coordinates of the items enqueue() has written

concVars == <<inflight>>

deviceVars == <<queue, eng, net, everQueued>>

vars == <<orgs, devices, jobs, rings, diamonds, diamond_images, storage, clock, inflight,
          queue, eng, net, everQueued>>

\* ----------------------------------------------------------------- helpers
now_utc_iso == clock

NoBody == [none |-> TRUE]

Range(s) == {s[i] : i \in DOMAIN s}

\* Mutant: any key passes.
require_device_key_AnyKey(x_device_key) == TRUE

\* require_device_key: TRUE when the request passes.
require_device_key(x_device_key) == x_device_key = DEVICE_API_KEY

\* The rows of table orgs: provisioned outside the service, which only reads
\* them.
ProvisionedOrgs == {[id |-> 1, slug |-> acme], [id |-> 2, slug |-> beta]}

OrgRows(org_slug) == {o \in orgs : o.slug = org_slug}

JobRows(job_id) == {j \in jobs : j.id = job_id}

\* Mutant: a slug with no row gets the id of a row made for it.
get_org_id_by_slug_Lazy(org_slug) ==
    IF OrgRows(org_slug) = {} THEN Cardinality(orgs) + 1
    ELSE (CHOOSE o \in OrgRows(org_slug) : TRUE).id

\* get_org_id_by_slug: 0 when it raises 404.
get_org_id_by_slug(org_slug) ==
    IF OrgRows(org_slug) = {} THEN 0 ELSE (CHOOSE o \in OrgRows(org_slug) : TRUE).id

DeviceRows(org_id, device_name) ==
    {d \in devices : d.org_id = org_id /\ d.name = device_name}

\* The id the store gives a new row: ids are opaque, and unique among the
\* rows of a table (here the row's key and a serial number among the rows
\* with that key).
NewId(key, sameKeyRows) == <<key, Cardinality(sameKeyRows) + 1>>

\* get_or_create_device: the devices table afterwards.
DevicesAfter(org_id, device_name) ==
    IF device_name = NoName \/ DeviceRows(org_id, device_name) # {}
    THEN devices
    ELSE devices \cup {[id |-> NewId(<<org_id, device_name>>, {}), org_id |-> org_id,
                        name |-> device_name]}

\* get_or_create_device: the id it returns (None without a device_name).
get_or_create_device(org_id, device_name) ==
    IF device_name = NoName THEN NoDevice
    ELSE IF DeviceRows(org_id, device_name) # {}
         THEN (CHOOSE d \in DeviceRows(org_id, device_name) : TRUE).id
         ELSE NewId(<<org_id, device_name>>, {})

\* Mutant: the owner of the job is not compared with the org.
ensure_job_exists_AnyOwner(job_id, org_id) ==
    IF JobRows(job_id) = {} THEN 404 ELSE 200

\* ensure_job_exists: the status code it raises, 200 when it returns the job.
ensure_job_exists(job_id, org_id) ==
    IF JobRows(job_id) = {} THEN 404
    ELSE IF (CHOOSE j \in JobRows(job_id) : TRUE).org_id # org_id THEN 403
    ELSE 200

JobOf(job_id) == CHOOSE j \in JobRows(job_id) : TRUE

RingRows(job_id, ring_label) ==
    {r \in rings : r.job_id = job_id /\ r.ring_label = ring_label}

\* get_or_create_ring: the rings table afterwards.
RingsAfter(job_id, ring_label) ==
    IF RingRows(job_id, ring_label) # {} THEN rings
    ELSE rings \cup {[id |-> NewId(<<job_id, ring_label>>, {}), job_id |-> job_id,
                      ring_label |-> ring_label]}

\* get_or_create_ring: the id it returns.
get_or_create_ring(job_id, ring_label) ==
    IF RingRows(job_id, ring_label) # {}
    THEN (CHOOSE r \in RingRows(job_id, ring_label) : TRUE).id
    ELSE NewId(<<job_id, ring_label>>, {})

DiamondRows(job_id, ring_id, slot_index) ==
    {d \in diamonds : d.job_id = job_id /\ d.ring_id = ring_id /\ d.slot_index = slot_index}

ImagesOf(diamond_id) == {r \in diamond_images : r.diamond_id = diamond_id}

\* Mutant: the base path of ingest_scan leaves the ring label out.
IngestBase_NoRing(p) ==
    p.org_slug \o Slash \o p.job_id \o Slash \o SlotPrefix \o Str(p.slot_index)

\* f"{org_slug}/{job_id}/{ring_label}/slot_{slot_index}" of ingest_scan.
IngestBase(p) ==
    p.org_slug \o Slash \o p.job_id \o Slash \o p.ring_label \o Slash
        \o SlotPrefix \o Str(p.slot_index)

\* f"{org_slug}/{job_id}/{ring_label}/slot_{slot_index}" of confirm_originals.
ConfirmBase(p) ==
    p.org_slug \o Slash \o p.job_id \o Slash \o p.ring_label \o Slash
        \o SlotPrefix \o Str(p.slot_index)

\* expected[t] of confirm_originals.
Expected(p, t) ==
    IF t = "UV_FREE" THEN ConfirmBase(p) \o UvFreeSuffix ELSE ConfirmBase(p) \o AsetSuffix

\* ------------------------------------------------------------------- state
\* The workers of the server that handle requests at the same time.
Workers == {1, 2}

\* An id not yet read or given.
NoId == <<>>

\* No device runs: the queue file is empty and main() is not started.
NoItem == [none |-> TRUE]

DeviceOff ==
    /\ queue = <<>>
    /\ eng = [pc |-> "off"]
    /\ net = "up"
    /\ everQueued = {}

\* A worker that handles no request.
IdleRequest == [pc |-> "idle", p |-> NoBody, ring_id |-> NoId, diamond_id |-> NoId, code |-> 0]

Init ==
    /\ orgs = ProvisionedOrgs
    /\ devices = {}
    /\ jobs = {}
    /\ rings = {}
    /\ diamonds = {}
    /\ diamond_images = {}
    /\ storage = {}
    /\ clock = 0
    /\ inflight = [w \in Workers |-> IdleRequest]
    /\ DeviceOff

\* The outcome of a handler: the status code and body the caller gets and
\* the tables the handler writes, as they are afterwards.
Outcome(code, body, dv, jb, rg, dm, im) ==
    [code |-> code, body |-> body, devices |-> dv, jobs |-> jb, rings |-> rg,
     diamonds |-> dm, diamond_images |-> im]

\* A raised HTTPException: nothing was written.
Raise(code, body) == Outcome(code, body, devices, jobs, rings, diamonds, diamond_images)

\* A handler's outcome becomes the state.
Apply(out) ==
    /\ devices' = out.devices
    /\ jobs' = out.jobs
    /\ rings' = out.rings
    /\ diamonds' = out.diamonds
    /\ diamond_images' = out.diamond_images
    /\ UNCHANGED <<orgs, storage, clock>>
    /\ UNCHANGED concVars
    /\ UNCHANGED deviceVars

\* ----------------------------------------------------------- job lifecycle
\* Mutant: the id is derived from the org, not drawn afresh.
NewJobId_PerOrg == Uuid(1)

\* uuid.uuid4() of jobs_start.
NewJobId == Uuid(Cardinality(jobs) + 1)

\* payload.external_ref, None when the request carries none.
NoRef == ""

ExternalRefOf(p) == IF "external_ref" \in DOMAIN p THEN p.external_ref ELSE NoRef

jobs_start_out(key, p) ==
    LET org_id == get_org_id_by_slug(p.org_slug)
    IN  IF ~require_device_key(key) THEN Raise(401, NoBody)
        ELSE IF org_id = 0 THEN Raise(404, NoBody)
        ELSE Outcome(200, [job_id |-> NewJobId, status |-> "SCANNING"],
                     DevicesAfter(org_id, p.device_name),
                     jobs \cup {[id |-> NewJobId, org_id |-> org_id,
                                 device_id |-> get_or_create_device(org_id, p.device_name),
                                 external_ref |-> ExternalRefOf(p),
                                 status |-> "SCANNING", started_at |-> now_utc_iso,
                                 paused_at |-> NULL, ended_at |-> NULL]},
                     rings, diamonds, diamond_images)

jobs_start(key, p) == Apply(jobs_start_out(key, p))

\* UPDATE jobs SET status = ..., <field> = ... WHERE id = job_id
UpdateJob(job_id, status, field, value) ==
    {IF j.id = job_id THEN [j EXCEPT !.status = status, ![field] = value] ELSE j : j \in jobs}

\* What jobs_pause, jobs_resume and jobs_stop share: the two lookups, the
\* update, and the status of the updated row in the response.
JobControl(key, job_id, org_slug, newJobs) ==
    LET org_id == get_org_id_by_slug(org_slug)
    IN  IF ~require_device_key(key) THEN Raise(401, NoBody)
        ELSE IF org_id = 0 THEN Raise(404, NoBody)
        ELSE IF ensure_job_exists(job_id, org_id) # 200
             THEN Raise(ensure_job_exists(job_id, org_id), NoBody)
        ELSE Outcome(200,
                     [job_id |-> job_id,
                      status |-> (CHOOSE j \in newJobs : j.id = job_id).status],
                     devices, newJobs, rings, diamonds, diamond_images)

jobs_pause_out(key, job_id, org_slug) ==
    JobControl(key, job_id, org_slug, UpdateJob(job_id, "PAUSED", "paused_at", now_utc_iso))

jobs_resume_out(key, job_id, org_slug) ==
    JobControl(key, job_id, org_slug, UpdateJob(job_id, "SCANNING", "paused_at", NULL))

jobs_stop_out(key, job_id, org_slug) ==
    JobControl(key, job_id, org_slug, UpdateJob(job_id, "PROCESSING", "ended_at", now_utc_iso))

jobs_pause(key, job_id, org_slug) == Apply(jobs_pause_out(key, job_id, org_slug))

jobs_resume(key, job_id, org_slug) == Apply(jobs_resume_out(key, job_id, org_slug))

jobs_stop(key, job_id, org_slug) == Apply(jobs_stop_out(key, job_id, org_slug))

\* ------------------------------------------------------------- signed URLs
\* f"{org_slug}/{job_id}/{ring_label}/slot_{slot_index}" of create_signed_urls.
SignedBase(p) ==
    p.org_slug \o Slash \o p.job_id \o Slash \o p.ring_label \o Slash
        \o SlotPrefix \o Str(p.slot_index)

\* create_signed_upload_url of the storage service: the URL is the capability
\* to PUT one object, <<bucket, path>>; NoPath when the service gives none.
create_signed_upload_url(bucket, path, up) == IF up THEN <<bucket, path>> ELSE NoPath

\* The objects create_signed_urls asks the storage service to sign: the
\* four calls are made once the org and job lookups have passed, whatever
\* payload.mode is.
SignedUrlCalls(key, p) ==
    IF \/ ~require_device_key(key)
       \/ get_org_id_by_slug(p.org_slug) = 0
       \/ ensure_job_exists(p.job_id, get_org_id_by_slug(p.org_slug)) # 200
    THEN {}
    ELSE {<<ORIGINALS_BUCKET, SignedBase(p) \o UvFreeSuffix>>,
          <<ORIGINALS_BUCKET, SignedBase(p) \o AsetSuffix>>,
          <<PREVIEWS_BUCKET, SignedBase(p) \o UvFreeThumbSuffix>>,
          <<PREVIEWS_BUCKET, SignedBase(p) \o AsetThumbSuffix>>}

\* Mutant: the handler resolves the ring of the slot, creating it if absent.
create_signed_urls_out_MakesRing(key, p, up) ==
    IF SignedUrlCalls(key, p) = {} THEN Raise(404, NoBody)
    ELSE IF ~up THEN Raise(500, NoBody)
    ELSE Outcome(200, [job_id |-> p.job_id],
                 devices, jobs, RingsAfter(p.job_id, p.ring_label), diamonds, diamond_images)

\* create_signed_urls: payload.mode is not read; `up` is whether the storage
\* service hands out the URLs.
create_signed_urls_out(key, p, up) ==
    LET org_id == get_org_id_by_slug(p.org_slug)
        uv_free_path == SignedBase(p) \o UvFreeSuffix
        aset_path == SignedBase(p) \o AsetSuffix
        uv_free_preview_path == SignedBase(p) \o UvFreeThumbSuffix
        aset_preview_path == SignedBase(p) \o AsetThumbSuffix
        uv_url == create_signed_upload_url(ORIGINALS_BUCKET, uv_free_path, up)
        aset_url == create_signed_upload_url(ORIGINALS_BUCKET, aset_path, up)
        uv_p_url == create_signed_upload_url(PREVIEWS_BUCKET, uv_free_preview_path, up)
        aset_p_url == create_signed_upload_url(PREVIEWS_BUCKET, aset_preview_path, up)
    IN  IF ~require_device_key(key) THEN Raise(401, NoBody)
        ELSE IF org_id = 0 THEN Raise(404, NoBody)
        ELSE IF ensure_job_exists(p.job_id, org_id) # 200
             THEN Raise(ensure_job_exists(p.job_id, org_id), NoBody)
        ELSE IF NoPath \in {uv_url, aset_url, uv_p_url, aset_p_url} THEN Raise(500, NoBody)
        ELSE Outcome(200,
                     [job_id |-> p.job_id,
                      uv_free_path |-> uv_free_path, aset_path |-> aset_path,
                      uv_free_signed_url |-> uv_url, aset_signed_url |-> aset_url,
                      uv_free_preview_path |-> uv_free_preview_path,
                      aset_preview_path |-> aset_preview_path,
                      uv_free_preview_signed_url |-> uv_p_url,
                      aset_preview_signed_url |-> aset_p_url],
                     devices, jobs, rings, diamonds, diamond_images)

create_signed_urls(key, p, up) == Apply(create_signed_urls_out(key, p, up))

\* --------------------------------------------------------------- ingestion
\* Mutant: a stopped job still takes scans.
IngestStatuses_WithProcessing == {"SCANNING", "PAUSED", "PROCESSING"}

\* Mutant: a paused job takes no scans.
IngestStatuses_ScanningOnly == {"SCANNING"}

\* The statuses in which ingest_scan goes on.
IngestStatuses == {"SCANNING", "PAUSED"}

\* Mutant: the rows store the paths the request carries.
ImageRows_ClientPaths(p, diamond_id) ==
    {[id |-> NewId(<<diamond_id, "UV_FREE">>, {}), diamond_id |-> diamond_id,
      image_type |-> "UV_FREE",
      storage_path |-> p.uv_free_path,
      preview_storage_path |-> p.uv_free_preview_path,
      preview_ready |-> TRUE, original_ready |-> FALSE, original_uploaded_at |-> NULL],
     [id |-> NewId(<<diamond_id, "ASET">>, {}), diamond_id |-> diamond_id,
      image_type |-> "ASET",
      storage_path |-> p.aset_path,
      preview_storage_path |-> p.aset_preview_path,
      preview_ready |-> TRUE, original_ready |-> FALSE, original_uploaded_at |-> NULL]}

\* The two image rows ingest_scan inserts for a new diamond.
ImageRows(p, diamond_id) ==
    {[id |-> NewId(<<diamond_id, "UV_FREE">>, {}), diamond_id |-> diamond_id,
      image_type |-> "UV_FREE",
      storage_path |-> IngestBase(p) \o UvFreeSuffix,
      preview_storage_path |-> IngestBase(p) \o UvFreeThumbSuffix,
      preview_ready |-> TRUE, original_ready |-> FALSE, original_uploaded_at |-> NULL],
     [id |-> NewId(<<diamond_id, "ASET">>, {}), diamond_id |-> diamond_id,
      image_type |-> "ASET",
      storage_path |-> IngestBase(p) \o AsetSuffix,
      preview_storage_path |-> IngestBase(p) \o AsetThumbSuffix,
      preview_ready |-> TRUE, original_ready |-> FALSE, original_uploaded_at |-> NULL]}

\* Mutant: the lookup of the existing Diamond is left out.
DiamondExists_NoLookup(job_id, ring_id, slot_index) == FALSE

\* `if existing.data` of ingest_scan.
DiamondExists(job_id, ring_id, slot_index) == DiamondRows(job_id, ring_id, slot_index) # {}

ingest_scan_out(key, p) ==
    LET org_id == get_org_id_by_slug(p.org_slug)
        ring_id == get_or_create_ring(p.job_id, p.ring_label)
        ringsNow == RingsAfter(p.job_id, p.ring_label)
        diamond_id == NewId(<<p.job_id, ring_id, p.slot_index>>,
                            DiamondRows(p.job_id, ring_id, p.slot_index))
    IN  IF ~require_device_key(key) THEN Raise(401, NoBody)
        ELSE IF org_id = 0 THEN Raise(404, NoBody)
        ELSE IF ensure_job_exists(p.job_id, org_id) # 200
             THEN Raise(ensure_job_exists(p.job_id, org_id), NoBody)
        ELSE IF JobOf(p.job_id).status \notin IngestStatuses THEN Raise(409, NoBody)
        ELSE IF DiamondExists(p.job_id, ring_id, p.slot_index)
             THEN Outcome(409, NoBody, devices, jobs, ringsNow, diamonds, diamond_images)
        ELSE Outcome(200,
                     [job_id |-> p.job_id, ring_id |-> ring_id, diamond_id |-> diamond_id],
                     devices, jobs, ringsNow,
                     diamonds \cup {[id |-> diamond_id, job_id |-> p.job_id,
                                     ring_id |-> ring_id, slot_index |-> p.slot_index]},
                     diamond_images \cup ImageRows(p, diamond_id))

ingest_scan(key, p) == Apply(ingest_scan_out(key, p))

\* ------------------------------------------------------ confirm originals
\* Mutant: the HEAD goes to an endpoint that answers 200 for any path.
HeadStatus_AlwaysFound(bucket, path, up) == IF ~up THEN 503 ELSE 200

\* The status of requests.head on an object: `up` is whether the storage
\* service gives a definitive answer.
HeadStatus(bucket, path, up) ==
    IF ~up THEN 503
    ELSE IF bucket = ORIGINALS_BUCKET /\ path \in storage THEN 200
    ELSE 404

\* Mutant: every status below 500 counts as found.
storage_object_exists_Lenient(bucket, path, up) ==
    IF ~up THEN "raise" ELSE "true"

\* Mutant: every status other than 200 counts as not found.
storage_object_exists_ErrorIsMissing(bucket, path, up) ==
    IF HeadStatus(bucket, path, up) = 200 THEN "true" ELSE "false"

\* storage_object_exists: "true", "false", or "raise" (HTTPException 502).
storage_object_exists(bucket, path, up) ==
    IF HeadStatus(bucket, path, up) = 200 THEN "true"
    ELSE IF HeadStatus(bucket, path, up) = 404 THEN "false"
    ELSE "raise"

\* The two startswith checks of the loop of confirm_originals.
PathInOrgAndJob(p, path) ==
    /\ StartsWith(path, p.org_slug \o Slash)
    /\ StartsWith(path, p.org_slug \o Slash \o p.job_id \o Slash)

\* The answers of the Oracle to the loop of confirm_originals: the HEAD
\* number errAt (0: none) gets no definitive answer.
OracleAnswers(p, errAt) ==
    [i \in 1..Len(p.image_types) |->
        storage_object_exists(ORIGINALS_BUCKET, Expected(p, p.image_types[i]), i # errAt)]

\* The loop raises at the first HEAD without a definitive answer.
LoopRaises(p, errAt) ==
    \E i \in 1..Len(p.image_types) : OracleAnswers(p, errAt)[i] = "raise"

\* The calls the loop made to the Oracle, <<path, answer>>, up to the raise.
OracleLog(p, errAt) ==
    LET n == IF errAt = 0 THEN Len(p.image_types) ELSE errAt
    IN  [i \in 1..n |-> <<Expected(p, p.image_types[i]), OracleAnswers(p, errAt)[i]>>]

\* confirmed after the loop: the image types found, in request order.
ConfirmedTypes(p, errAt) ==
    LET idx == SelectSeq([i \in 1..Len(p.image_types) |-> i],
                         LAMBDA i : OracleAnswers(p, errAt)[i] = "true")
    IN  [k \in 1..Len(idx) |-> p.image_types[idx[k]]]

\* missing after the loop: the paths not found, in request order.
MissingPaths(p, errAt) ==
    LET idx == SelectSeq([i \in 1..Len(p.image_types) |-> i],
                         LAMBDA i : OracleAnswers(p, errAt)[i] = "false")
    IN  [k \in 1..Len(idx) |-> Expected(p, p.image_types[idx[k]])]

\* Mutant: the update writes original_ready for every row of the Diamond,
\* true for the confirmed types and false for the others.
MarkReady_Overwrite(diamond_id, confirmed, ts) ==
    {IF r.diamond_id = diamond_id
     THEN [r EXCEPT !.original_ready = (r.image_type \in Range(confirmed)),
                    !.original_uploaded_at = ts]
     ELSE r : r \in diamond_images}

\* Mutant: the update has no image_type filter.
MarkReady_WholeDiamond(diamond_id, confirmed, ts) ==
    {IF r.diamond_id = diamond_id /\ confirmed # <<>>
     THEN [r EXCEPT !.original_ready = TRUE, !.original_uploaded_at = ts]
     ELSE r : r \in diamond_images}

\* Mutant: the update loop stops after the first confirmed type.
MarkReady_FirstOnly(diamond_id, confirmed, ts) ==
    {IF r.diamond_id = diamond_id /\ confirmed # <<>> /\ r.image_type = Head(confirmed)
     THEN [r EXCEPT !.original_ready = TRUE, !.original_uploaded_at = ts]
     ELSE r : r \in diamond_images}

\* Mutant: the update flips original_ready instead of setting it.
MarkReady_Toggle(diamond_id, confirmed, ts) ==
    {IF r.diamond_id = diamond_id /\ r.image_type \in Range(confirmed)
     THEN [r EXCEPT !.original_ready = ~@, !.original_uploaded_at = ts]
     ELSE r : r \in diamond_images}

\* Mutant: the update has no diamond_id filter.
MarkReady_AnyDiamond(diamond_id, confirmed, ts) ==
    {IF r.image_type \in Range(confirmed)
     THEN [r EXCEPT !.original_ready = TRUE, !.original_uploaded_at = ts]
     ELSE r : r \in diamond_images}

\* Step 7: UPDATE diamond_images SET original_ready, original_uploaded_at
\* WHERE diamond_id = ... AND image_type = t, for t in confirmed.
MarkReady(diamond_id, confirmed, ts) ==
    {IF r.diamond_id = diamond_id /\ r.image_type \in Range(confirmed)
     THEN [r EXCEPT !.original_ready = TRUE, !.original_uploaded_at = ts]
     ELSE r : r \in diamond_images}

\* Mutant: the `if missing` raise is left out.
RaisesOnMissing_Never(missing) == FALSE

\* `if missing` of confirm_originals: the call ends in 409.
RaisesOnMissing(missing) == missing # <<>>

confirm_originals_out(key, p, errAt) ==
    LET org_id == get_org_id_by_slug(p.org_slug)
        ringRows == RingRows(p.job_id, p.ring_label)
        ring_id == (CHOOSE r \in ringRows : TRUE).id
        diaRows == DiamondRows(p.job_id, ring_id, p.slot_index)
        diamond_id == (CHOOSE d \in diaRows : TRUE).id
        confirmed == ConfirmedTypes(p, errAt)
        missing == MissingPaths(p, errAt)
    IN  IF ~require_device_key(key) THEN Raise(401, NoBody)
        ELSE IF org_id = 0 THEN Raise(404, NoBody)
        ELSE IF ensure_job_exists(p.job_id, org_id) # 200
             THEN Raise(ensure_job_exists(p.job_id, org_id), NoBody)
        ELSE IF ringRows = {} THEN Raise(404, NoBody)
        ELSE IF diaRows = {} THEN Raise(404, NoBody)
        ELSE IF \E i \in 1..Len(p.image_types) :
                    ~PathInOrgAndJob(p, Expected(p, p.image_types[i]))
             THEN Raise(403, NoBody)
        ELSE IF LoopRaises(p, errAt) THEN Raise(502, NoBody)
        ELSE IF RaisesOnMissing(missing) THEN Raise(409, [missing |-> missing])
        ELSE Outcome(200,
                     [job_id |-> p.job_id, diamond_id |-> diamond_id,
                      confirmed |-> confirmed, missing |-> <<>>],
                     devices, jobs, rings, diamonds,
                     MarkReady(diamond_id, confirmed, now_utc_iso))

confirm_originals(key, p, errAt) == Apply(confirm_originals_out(key, p, errAt))

\* ------------------------------------------------------------- environment
\* storage_upload_signed_put of the device, which uploads the originals of a
\* slot after its ingest-scan went through: one original reaches the bucket.
StoragePut(path) ==
    /\ path \in {r.storage_path : r \in diamond_images}
    /\ path \notin storage
    /\ storage' = storage \cup {path}
    /\ UNCHANGED <<orgs, devices, jobs, rings, diamonds, diamond_images, clock>>
    /\ UNCHANGED concVars
    /\ UNCHANGED deviceVars

\* The server's clock advances.
Tick ==
    /\ clock < MaxClock
    /\ clock' = clock + 1
    /\ UNCHANGED <<orgs, devices, jobs, rings, diamonds, diamond_images, storage>>
    /\ UNCHANGED concVars
    /\ UNCHANGED deviceVars

\* ------------------------------------------------------------------ inputs
\* (org_slug, job_id) of a request: a provisioned org with a job id that may
\* exist, the unknown org, and the job id no job has.
OrgJobInputs ==
    ({acme, beta} \X {Uuid(1)}) \cup {<<ghost, Uuid(1)>>, <<acme, Uuid(0)>>}

StartPayloads == [org_slug : OrgSlugs, device_name : DeviceNames]

\* What the device sends to ingest-scan for a coordinate: the paths the
\* signed-URLs step returned.
DevicePayload(org_slug, job_id, ring_label, slot_index) ==
    LET base == org_slug \o Slash \o job_id \o Slash \o ring_label \o Slash
                    \o SlotPrefix \o Str(slot_index)
    IN  [org_slug |-> org_slug, job_id |-> job_id, ring_label |-> ring_label,
         slot_index |-> slot_index,
         uv_free_path |-> base \o UvFreeSuffix, aset_path |-> base \o AsetSuffix,
         uv_free_preview_path |-> base \o UvFreeThumbSuffix,
         aset_preview_path |-> base \o AsetThumbSuffix]

\* A request with paths of its own choice and no preview paths.
ForeignPayload(org_slug, job_id, ring_label, slot_index) ==
    [org_slug |-> org_slug, job_id |-> job_id, ring_label |-> ring_label,
     slot_index |-> slot_index,
     uv_free_path |-> ghost \o Slash \o <<"x">>, aset_path |-> ghost \o Slash \o <<"y">>,
     uv_free_preview_path |-> NoPath, aset_preview_path |-> NoPath]

\* The requests that get past the job lookup when the job is the org's, and
\* one request each with the unknown org and with the job id no job has.
IngestPayloads ==
    {DevicePayload(o, Uuid(1), r, s) : o \in {acme, beta}, r \in RingLabels, s \in SlotIndexes}
    \cup {ForeignPayload(acme, Uuid(1), r, s) : r \in RingLabels, s \in SlotIndexes}
    \cup {DevicePayload(ghost, Uuid(1), <<"A">>, 0), DevicePayload(acme, Uuid(0), <<"A">>, 0)}

ConfirmPayloads ==
    {[org_slug |-> o, job_id |-> Uuid(1), ring_label |-> r, slot_index |-> s,
      image_types |-> ts] :
        o \in {acme, beta}, r \in RingLabels, s \in SlotIndexes, ts \in ImageTypeLists}
    \cup {[org_slug |-> oj[1], job_id |-> oj[2], ring_label |-> <<"A">>, slot_index |-> 0,
           image_types |-> <<"UV_FREE", "ASET">>] : oj \in {<<ghost, Uuid(1)>>, <<acme, Uuid(0)>>}}

\* mode of a signed-URLs request.
SignedUrlModes == {"both", "previews", "originals"}

SignedPayloads ==
    {[org_slug |-> oj[1], job_id |-> oj[2], ring_label |-> r, slot_index |-> s, mode |-> m] :
        oj \in OrgJobInputs, r \in RingLabels, s \in SlotIndexes, m \in SignedUrlModes}

\* errAt of a confirm-originals call: which HEAD, if any, fails.
ErrAts(p) == 0..Len(p.image_types)

\* A request with a wrong device key, one of each kind: the key is checked
\* before the handler looks at anything else.
Unauthorized ==
    \/ jobs_start("wrong", [org_slug |-> acme, device_name |-> NoName])
    \/ jobs_pause("wrong", Uuid(1), acme)
    \/ jobs_resume("wrong", Uuid(1), acme)
    \/ jobs_stop("wrong", Uuid(1), acme)
    \/ ingest_scan("wrong", DevicePayload(acme, Uuid(1), <<"A">>, 0))
    \/ confirm_originals("wrong",
            [org_slug |-> acme, job_id |-> Uuid(1), ring_label |-> <<"A">>,
             slot_index |-> 0, image_types |-> <<"UV_FREE", "ASET">>], 0)
    \/ create_signed_urls("wrong",
            [org_slug |-> acme, job_id |-> Uuid(1), ring_label |-> <<"A">>,
             slot_index |-> 0, mode |-> "both"], TRUE)

\* Spec follows the ingestion of one job: a start that would create a
\* second job is not issued.
Next ==
    \/ \E p \in StartPayloads :
            /\ jobs_start_out(DEVICE_API_KEY, p).code = 200 => jobs = {}
            /\ jobs_start(DEVICE_API_KEY, p)
    \/ \E oj \in OrgJobInputs :
            \/ jobs_pause(DEVICE_API_KEY, oj[2], oj[1])
            \/ jobs_resume(DEVICE_API_KEY, oj[2], oj[1])
            \/ jobs_stop(DEVICE_API_KEY, oj[2], oj[1])
    \/ \E p \in IngestPayloads : ingest_scan(DEVICE_API_KEY, p)
    \/ \E p \in ConfirmPayloads : \E errAt \in ErrAts(p) : confirm_originals(DEVICE_API_KEY, p, errAt)
    \/ \E p \in SignedPayloads : \E up \in BOOLEAN : create_signed_urls(DEVICE_API_KEY, p, up)
    \/ \E path \in {r.storage_path : r \in diamond_images} : StoragePut(path)
    \/ Unauthorized

Spec == Init /\ [][Next]_vars

\* The same with a running clock.
NextTimed == Next \/ Tick

SpecTimed == Init /\ [][NextTimed]_vars

\* ------------------------------------------------------------ many jobs
\* The job lifecycle alone, with several jobs: starts are repeated with the
\* same org, device and external_ref, and jobs are paused, resumed and
\* stopped while others are started.

\* external_ref of a start request.
ExternalRefs == {NoRef, "lot-7"}

\* The start requests of one scanner.
StartPayloadsRef ==
    [org_slug : OrgSlugs, device_name : {"Scanner-1"}, external_ref : ExternalRefs]

\* The job ids uuid4 can have given, and one it has not.
JobIdsMany == {Uuid(n) : n \in 0..MaxJobs}

NextJobs ==
    \/ \E p \in StartPayloadsRef :
            /\ Cardinality(jobs) < MaxJobs
            /\ jobs_start(DEVICE_API_KEY, p)
    \/ \E org_slug \in OrgSlugs : \E job_id \in JobIdsMany :
            \/ jobs_pause(DEVICE_API_KEY, job_id, org_slug)
            \/ jobs_resume(DEVICE_API_KEY, job_id, org_slug)
            \/ jobs_stop(DEVICE_API_KEY, job_id, org_slug)

SpecJobs == Init /\ [][NextJobs]_vars

\* ------------------------------------------------- concurrent ingest-scan
\* ingest_scan handled by two workers at once.  A worker runs the handler
\* one round trip to the store at a time; each select and each insert is
\* one step, and another worker's steps may fall between any two of them.
\* The handler holds no lock and opens no transaction, and its inserts are
\* plain inserts: the tables take any row.

\* The ingest-scan requests the two workers get: the device's requests for
\* the slots of ring A of the job.
ConcPayloads == {DevicePayload(acme, Uuid(1), <<"A">>, s) : s \in SlotIndexes}

\* The job the requests are for has been started.
InitConc ==
    /\ orgs = ProvisionedOrgs
    /\ devices = {}
    /\ jobs = {[id |-> Uuid(1), org_id |-> 1, device_id |-> NoDevice, external_ref |-> NoRef,
                status |-> "SCANNING", started_at |-> 0, paused_at |-> NULL, ended_at |-> NULL]}
    /\ rings = {}
    /\ diamonds = {}
    /\ diamond_images = {}
    /\ storage = {}
    /\ clock = 0
    /\ inflight = [w \in Workers |-> IdleRequest]
    /\ DeviceOff

\* The worker goes on to the next round trip, or ends the request.
Goto(w, pc) == inflight' = [inflight EXCEPT ![w].pc = pc]

Reply(w, code) == inflight' = [inflight EXCEPT ![w].pc = "done", ![w].code = code]

\* The request arrives: get_org_id_by_slug, ensure_job_exists and the test
\* of the status it read.
IngestReadJob(w, p) ==
    /\ inflight[w].pc = "idle"
    /\ LET org_id == get_org_id_by_slug(p.org_slug)
       IN  IF org_id = 0
           THEN inflight' = [inflight EXCEPT ![w] = [@ EXCEPT !.p = p, !.pc = "done", !.code = 404]]
           ELSE IF ensure_job_exists(p.job_id, org_id) # 200
           THEN inflight' = [inflight EXCEPT ![w] =
                                [@ EXCEPT !.p = p, !.pc = "done",
                                          !.code = ensure_job_exists(p.job_id, org_id)]]
           ELSE IF JobOf(p.job_id).status \notin IngestStatuses
           THEN inflight' = [inflight EXCEPT ![w] = [@ EXCEPT !.p = p, !.pc = "done", !.code = 409]]
           ELSE inflight' = [inflight EXCEPT ![w] = [@ EXCEPT !.p = p, !.pc = "ring_select"]]
    /\ UNCHANGED <<orgs, devices, jobs, rings, diamonds, diamond_images, storage, clock>>
    /\ UNCHANGED deviceVars

\* get_or_create_ring: the select.
IngestRingSelect(w) ==
    /\ inflight[w].pc = "ring_select"
    /\ LET rows == RingRows(inflight[w].p.job_id, inflight[w].p.ring_label)
       IN  IF rows # {}
           THEN inflight' = [inflight EXCEPT ![w].ring_id = (CHOOSE r \in rows : TRUE).id,
                                             ![w].pc = "diamond_select"]
           ELSE Goto(w, "ring_insert")
    /\ UNCHANGED <<orgs, devices, jobs, rings, diamonds, diamond_images, storage, clock>>
    /\ UNCHANGED deviceVars

\* get_or_create_ring: the insert, made when the select found no row.
IngestRingInsert(w) ==
    /\ inflight[w].pc = "ring_insert"
    /\ LET q == inflight[w].p
           ring_id == NewId(<<q.job_id, q.ring_label>>, RingRows(q.job_id, q.ring_label))
       IN  /\ rings' = rings \cup {[id |-> ring_id, job_id |-> q.job_id,
                                    ring_label |-> q.ring_label]}
           /\ inflight' = [inflight EXCEPT ![w].ring_id = ring_id, ![w].pc = "diamond_select"]
    /\ UNCHANGED <<orgs, devices, jobs, diamonds, diamond_images, storage, clock>>
    /\ UNCHANGED deviceVars

\* The select of the existing Diamond, and the 409 when there is one.
IngestDiamondSelect(w) ==
    /\ inflight[w].pc = "diamond_select"
    /\ IF DiamondExists(inflight[w].p.job_id, inflight[w].ring_id, inflight[w].p.slot_index)
       THEN Reply(w, 409)
       ELSE Goto(w, "diamond_insert")
    /\ UNCHANGED <<orgs, devices, jobs, rings, diamonds, diamond_images, storage, clock>>
    /\ UNCHANGED deviceVars

\* The insert of the Diamond.
IngestDiamondInsert(w) ==
    /\ inflight[w].pc = "diamond_insert"
    /\ LET q == inflight[w].p
           ring_id == inflight[w].ring_id
           diamond_id == NewId(<<q.job_id, ring_id, q.slot_index>>,
                               DiamondRows(q.job_id, ring_id, q.slot_index))
       IN  /\ diamonds' = diamonds \cup {[id |-> diamond_id, job_id |-> q.job_id,
                                          ring_id |-> ring_id, slot_index |-> q.slot_index]}
           /\ inflight' = [inflight EXCEPT ![w].diamond_id = diamond_id, ![w].pc = "images_insert"]
    /\ UNCHANGED <<orgs, devices, jobs, rings, diamond_images, storage, clock>>
    /\ UNCHANGED deviceVars

\* The insert of the two image rows, and the response.
IngestImagesInsert(w) ==
    /\ inflight[w].pc = "images_insert"
    /\ diamond_images' = diamond_images \cup ImageRows(inflight[w].p, inflight[w].diamond_id)
    /\ Reply(w, 200)
    /\ UNCHANGED <<orgs, devices, jobs, rings, diamonds, storage, clock>>
    /\ UNCHANGED deviceVars

\* A round trip to the store fails (the store or the network is down, the
\* worker is killed): the exception ends the request in 500, and what the
\* earlier round trips wrote stays.
IngestInterrupted(w) ==
    /\ inflight[w].pc \in {"ring_select", "ring_insert", "diamond_select", "diamond_insert",
                           "images_insert"}
    /\ Reply(w, 500)
    /\ UNCHANGED <<orgs, devices, jobs, rings, diamonds, diamond_images, storage, clock>>
    /\ UNCHANGED deviceVars

\* A stop of the job, handled by another worker between two round trips.
StopMeanwhile ==
    /\ \E j \in jobs : j.status # "PROCESSING"
    /\ jobs_stop(DEVICE_API_KEY, Uuid(1), acme)

NextConc ==
    \/ \E w \in Workers : \E p \in ConcPayloads : IngestReadJob(w, p)
    \/ \E w \in Workers : IngestRingSelect(w)
    \/ \E w \in Workers : IngestRingInsert(w)
    \/ \E w \in Workers : IngestDiamondSelect(w)
    \/ \E w \in Workers : IngestDiamondInsert(w)
    \/ \E w \in Workers : IngestImagesInsert(w)
    \/ \E w \in Workers : IngestInterrupted(w)
    \/ StopMeanwhile

SpecConc == InitConc /\ [][NextConc]_vars

\* ------------------------------------------------------ device sync engine
\* scripts/device_simulator.py: main() and the queue it persists.  The
\* engine is single-threaded; every network call (a request to the API, the
\* PUTs of one upload step) is one step, and what the engine does locally
\* after the call (setting a flag, saving the queue, moving on) belongs to
\* the same step.

\* The runs of main() that reach /jobs/start for a provisioned org.
MaxRuns == 1

\* cfg.upload_originals_mode: a setting of the device, the same in every run
\* of main().
Modes == {"immediate", "delayed", "never"}

\* cfg.device_name, cfg.ring_label, and cfg.org_slug: the device's org, or a
\* slug the server does not know.
CfgDeviceName == "Scanner-1"

CfgRingLabel == <<"A">>

CfgOrgSlugs == {acme, ghost}

\* range(cfg.slots)
CfgSlotRange == 0..MaxSlot

\* item["state"] of a new item.
NoFlags ==
    [preview_uploaded |-> FALSE, ingested |-> FALSE, original_uploaded |-> FALSE,
     originals_confirmed |-> FALSE]

\* qitem_upload_and_ingest, from the response su of the signed-URLs step
\* (created_at and the local file names are left out).
qitem_upload_and_ingest(org_slug, device_name, ring_label, slot_index, job_id, su) ==
    [type |-> "UPLOAD_AND_INGEST", org_slug |-> org_slug, device_name |-> device_name,
     ring_label |-> ring_label, slot_index |-> slot_index, job_id |-> job_id,
     paths |-> [uv_preview_path |-> su.uv_free_preview_path,
                aset_preview_path |-> su.aset_preview_path,
                uv_original_path |-> su.uv_free_path,
                aset_original_path |-> su.aset_path],
     signed |-> [uv_preview_signed_url |-> su.uv_free_preview_signed_url,
                 aset_preview_signed_url |-> su.aset_preview_signed_url,
                 uv_original_signed_url |-> su.uv_free_signed_url,
                 aset_original_signed_url |-> su.aset_signed_url],
     state |-> NoFlags]

\* The payload of the item's ingest-scan request.
IngestPayloadOf(item) ==
    [org_slug |-> item.org_slug, job_id |-> item.job_id, ring_label |-> item.ring_label,
     slot_index |-> item.slot_index,
     uv_free_path |-> item.paths.uv_original_path, aset_path |-> item.paths.aset_original_path,
     uv_free_preview_path |-> item.paths.uv_preview_path,
     aset_preview_path |-> item.paths.aset_preview_path]

\* image_types of a confirm-originals request that carries none: the
\* request model's default.
DefaultImageTypes == <<"UV_FREE", "ASET">>

\* The item's confirm-originals request as the server reads it: the device
\* sends the coordinate and the two original paths, and no image_types.
ConfirmPayloadOf(item) ==
    [org_slug |-> item.org_slug, job_id |-> item.job_id, ring_label |-> item.ring_label,
     slot_index |-> item.slot_index, image_types |-> DefaultImageTypes]

\* Mutant: a 409 counts as a success.
safe_request_ok_ConflictIsOk(code) == code # 0 /\ (code < 400 \/ code = 409)

\* safe_request: ok is True for a response with a status below 400.
safe_request_ok(code) == code # 0 /\ code < 400

\* process_queue_item with the originals uploaded before the ingest.
NextStep_OriginalsBeforeIngest(item, mode) ==
    IF item.type # "UPLOAD_AND_INGEST" THEN "return"
    ELSE IF ~item.state.preview_uploaded THEN "previews"
    ELSE IF mode # "never" /\ ~item.state.original_uploaded THEN "originals"
    ELSE IF ~item.state.ingested THEN "ingest"
    ELSE IF mode = "never" THEN "return"
    ELSE IF ~item.state.originals_confirmed THEN "confirm"
    ELSE "return"

\* process_queue_item: the step it goes to for the item's flags, "return"
\* when it returns True.
NextStep(item, mode) ==
    IF item.type # "UPLOAD_AND_INGEST" THEN "return"
    ELSE IF ~item.state.preview_uploaded THEN "previews"
    ELSE IF ~item.state.ingested THEN "ingest"
    ELSE IF mode = "never" THEN "return"
    ELSE IF ~item.state.original_uploaded THEN "originals"
    ELSE IF ~item.state.originals_confirmed THEN "confirm"
    ELSE "return"

\* The flag a step sets when it succeeds.
FlagOf(step) ==
    CASE step = "previews" -> "preview_uploaded"
      [] step = "ingest" -> "ingested"
      [] step = "originals" -> "original_uploaded"
      [] step = "confirm" -> "originals_confirmed"

\* main() before it is run, and between two runs.
EngineAtRest(run, mode) ==
    [pc |-> "exit", mode |-> mode, org |-> acme, run |-> run, i |-> 0,
     kept |-> <<>>, item |-> NoItem, job_id |-> NoId, slot |-> 0, delayed |-> <<>>, k |-> 0,
     code |-> 0]

\* The phases of main() in which process_queue_item runs on eng.item.
ItemPhases == {"drain", "slot", "delayed"}

\* cfg.upload_originals_mode while process_queue_item runs: the slot loop
\* sets it to "never" unless the mode is "immediate".
ModeNow == IF eng.pc = "slot" /\ eng.mode # "immediate" THEN "never" ELSE eng.mode

\* What a network call comes to: "ok" (answered), "unsent" (the request did
\* not get through), "lost" (it got through, no answer came back).
AttemptResults == IF net = "up" THEN {"ok"} ELSE {"ok", "unsent", "lost"}

\* The coordinate of an item.
CoordOf(item) == <<item.job_id, item.ring_label, item.slot_index>>

\* A device with an empty queue, not running, and the server as deployed.
InitDevice ==
    /\ orgs = ProvisionedOrgs
    /\ devices = {}
    /\ jobs = {}
    /\ rings = {}
    /\ diamonds = {}
    /\ diamond_images = {}
    /\ storage = {}
    /\ clock = 0
    /\ inflight = [w \in Workers |-> IdleRequest]
    /\ queue = <<>>
    /\ \E mode \in Modes : eng = EngineAtRest(0, mode)
    /\ net \in {"up", "flaky"}
    /\ everQueued = {}

ServerUnchanged == UNCHANGED <<orgs, devices, jobs, rings, diamonds, diamond_images, clock, inflight>>

\* main() is started: drain_queue loads the queue file.  The file is not
\* written before save_queue at the end of the pass, so q, the loaded list,
\* is read from queue and i is the position of the pass in it.
RunMain(org) ==
    /\ eng.pc = "exit"
    /\ org = acme => eng.run < MaxRuns
    /\ eng' = IF queue = <<>>
              THEN [EngineAtRest(eng.run, eng.mode) EXCEPT !.pc = "start", !.org = org]
              ELSE [EngineAtRest(eng.run, eng.mode) EXCEPT !.pc = "drain", !.org = org,
                                                           !.i = 1, !.item = queue[1]]
    /\ UNCHANGED <<queue, net, everQueued, storage>>
    /\ ServerUnchanged

\* After the slot loop: the delayed originals, or the stop.
AfterLoop(e) ==
    IF e.mode = "delayed" /\ e.delayed # <<>>
    THEN [e EXCEPT !.pc = "delayed", !.k = 1, !.item = e.delayed[1]]
    ELSE [e EXCEPT !.pc = "stop", !.item = NoItem, !.delayed = <<>>]

\* drain_queue that breaks without keeping the item that failed.
KeptAfterFailure_ItemDropped(kept, item) == kept

\* drain_queue: kept after an item failed.
KeptAfterFailure(kept, item) == Append(kept, item)

\* enqueue: the queue file afterwards.
enqueue(item) == Append(queue, item)

\* process_queue_item returned False: what its caller does.  e is the
\* engine with the item as the failed step left it.
ItemFailed(e) ==
    CASE e.pc = "drain" ->
            /\ queue' = KeptAfterFailure(e.kept, e.item)
            /\ eng' = [e EXCEPT !.pc = "start", !.i = 0, !.kept = <<>>,
                                !.item = NoItem]
            /\ UNCHANGED everQueued
      [] e.pc = "slot" ->
            /\ queue' = enqueue(e.item)
            /\ eng' = AfterLoop(e)
            /\ everQueued' = everQueued \cup {CoordOf(e.item)}
      [] e.pc = "delayed" ->
            /\ queue' = enqueue(e.item)
            /\ eng' = [e EXCEPT !.pc = "stop", !.item = NoItem, !.delayed = <<>>, !.k = 0]
            /\ everQueued' = everQueued \cup {CoordOf(e.item)}

\* process_queue_item returns True: what its caller does.
ItemReturns ==
    /\ eng.pc \in ItemPhases
    /\ NextStep(eng.item, ModeNow) = "return"
    /\ CASE eng.pc = "drain" ->
                IF eng.i < Len(queue)
                THEN /\ eng' = [eng EXCEPT !.i = @ + 1, !.item = queue[eng.i + 1], !.code = 0]
                     /\ UNCHANGED queue
                ELSE /\ eng' = [eng EXCEPT !.pc = "start", !.i = 0, !.kept = <<>>,
                                           !.item = NoItem, !.code = 0]
                     /\ queue' = eng.kept
         [] eng.pc = "slot" ->
                LET e == [eng EXCEPT !.delayed = IF eng.mode = "delayed"
                                                 THEN Append(@, eng.item) ELSE @,
                                     !.code = 0]
                IN  /\ eng' = IF eng.slot < MaxSlot
                              THEN [e EXCEPT !.pc = "signed", !.slot = @ + 1, !.item = NoItem]
                              ELSE AfterLoop(e)
                    /\ UNCHANGED queue
         [] eng.pc = "delayed" ->
                /\ eng' = IF eng.k < Len(eng.delayed)
                          THEN [eng EXCEPT !.k = @ + 1, !.item = eng.delayed[eng.k + 1],
                                           !.code = 0]
                          ELSE [eng EXCEPT !.pc = "stop", !.item = NoItem, !.delayed = <<>>,
                                           !.k = 0, !.code = 0]
                /\ UNCHANGED queue
    /\ UNCHANGED <<net, everQueued, storage>>
    /\ ServerUnchanged

\* The step went through: its flag is set and process_queue_item goes on.
StepDone(step, code) ==
    /\ eng' = [eng EXCEPT !.item.state[FlagOf(step)] = TRUE, !.code = code]
    /\ UNCHANGED <<queue, everQueued>>

\* Step 1: the two PUTs of the previews (the previews bucket is not looked
\* at by the server).
UploadPreviews(res) ==
    /\ eng.pc \in ItemPhases
    /\ NextStep(eng.item, ModeNow) = "previews"
    /\ res \in AttemptResults \ {"lost"}
    /\ IF res = "ok" THEN StepDone("previews", 0) ELSE ItemFailed([eng EXCEPT !.code = 0])
    /\ UNCHANGED <<net, storage>>
    /\ ServerUnchanged

\* What the server keeps of a request: nothing when it did not get through.
Served(res, out) ==
    /\ devices' = IF res = "unsent" THEN devices ELSE out.devices
    /\ jobs' = IF res = "unsent" THEN jobs ELSE out.jobs
    /\ rings' = IF res = "unsent" THEN rings ELSE out.rings
    /\ diamonds' = IF res = "unsent" THEN diamonds ELSE out.diamonds
    /\ diamond_images' = IF res = "unsent" THEN diamond_images ELSE out.diamond_images
    /\ UNCHANGED <<orgs, clock, inflight>>

\* The status safe_request sees: 0 when no response came.
StatusSeen(res, out) == IF res = "ok" THEN out.code ELSE 0

\* Step 2: POST /ingest/scan.
SendIngest(res) ==
    /\ eng.pc \in ItemPhases
    /\ NextStep(eng.item, ModeNow) = "ingest"
    /\ res \in AttemptResults
    /\ LET out == ingest_scan_out(DEVICE_API_KEY, IngestPayloadOf(eng.item))
           code == StatusSeen(res, out)
       IN  /\ Served(res, out)
           /\ IF safe_request_ok(code) THEN StepDone("ingest", code)
              ELSE ItemFailed([eng EXCEPT !.code = code])
    /\ UNCHANGED <<net, storage>>

\* Step 3: the two PUTs of the originals; "lost" is the first PUT done and
\* the second failed.
UploadOriginals(res) ==
    /\ eng.pc \in ItemPhases
    /\ NextStep(eng.item, ModeNow) = "originals"
    /\ res \in AttemptResults
    /\ storage' = CASE res = "ok" -> storage \cup {eng.item.signed.uv_original_signed_url[2],
                                                   eng.item.signed.aset_original_signed_url[2]}
                    [] res = "lost" -> storage \cup {eng.item.signed.uv_original_signed_url[2]}
                    [] res = "unsent" -> storage
    /\ IF res = "ok" THEN StepDone("originals", 0) ELSE ItemFailed([eng EXCEPT !.code = 0])
    /\ UNCHANGED net
    /\ ServerUnchanged

\* Step 4: POST /ingest/confirm-originals.
SendConfirm(res) ==
    /\ eng.pc \in ItemPhases
    /\ NextStep(eng.item, ModeNow) = "confirm"
    /\ res \in AttemptResults
    /\ LET out == confirm_originals_out(DEVICE_API_KEY, ConfirmPayloadOf(eng.item), 0)
           code == StatusSeen(res, out)
       IN  /\ Served(res, out)
           /\ IF safe_request_ok(code) THEN StepDone("confirm", code)
              ELSE ItemFailed([eng EXCEPT !.code = code])
    /\ UNCHANGED <<net, storage>>

\* main, 1): POST /jobs/start; main returns when it fails.
SendStart(res) ==
    /\ eng.pc = "start"
    /\ res \in AttemptResults
    /\ LET out == jobs_start_out(DEVICE_API_KEY,
                                 [org_slug |-> eng.org, device_name |-> CfgDeviceName])
           code == StatusSeen(res, out)
       IN  /\ Served(res, out)
           /\ eng' = IF safe_request_ok(code)
                     THEN [eng EXCEPT !.pc = "signed", !.job_id = out.body.job_id, !.slot = 0,
                                      !.run = @ + 1, !.code = code]
                     ELSE [EngineAtRest(IF res = "lost" /\ out.code = 200
                                        THEN eng.run + 1 ELSE eng.run,
                                        eng.mode) EXCEPT !.code = code]
    /\ UNCHANGED <<queue, net, everQueued, storage>>

\* main, 2): POST /storage/signed-urls for the slot, and the new item.
SendSignedUrls(res) ==
    /\ eng.pc = "signed"
    /\ res \in AttemptResults \ {"lost"}
    /\ LET out == create_signed_urls_out(DEVICE_API_KEY,
                        [org_slug |-> eng.org, job_id |-> eng.job_id,
                         ring_label |-> CfgRingLabel, slot_index |-> eng.slot, mode |-> "both"],
                        TRUE)
           code == StatusSeen(res, out)
       IN  eng' = IF safe_request_ok(code)
                  THEN [eng EXCEPT !.pc = "slot", !.code = code,
                                   !.item = qitem_upload_and_ingest(eng.org, CfgDeviceName,
                                                CfgRingLabel, eng.slot, eng.job_id, out.body)]
                  ELSE AfterLoop([eng EXCEPT !.code = code])
    /\ UNCHANGED <<queue, net, everQueued, storage>>
    /\ ServerUnchanged

\* main, 4): POST /jobs/{job_id}/stop; its failure is not fatal.
SendStop(res) ==
    /\ eng.pc = "stop"
    /\ res \in AttemptResults
    /\ LET out == jobs_stop_out(DEVICE_API_KEY, eng.job_id, eng.org)
       IN  /\ Served(res, out)
           /\ eng' = [EngineAtRest(eng.run, eng.mode) EXCEPT !.code = StatusSeen(res, out)]
    /\ UNCHANGED <<queue, net, everQueued, storage>>

\* Connectivity comes and goes between two runs; while it is flaky each
\* call of a run can go either way.
NetChanges ==
    /\ eng.pc = "exit"
    /\ net' = IF net = "up" THEN "flaky" ELSE "up"
    /\ UNCHANGED <<queue, eng, everQueued, storage>>
    /\ ServerUnchanged

\* The steps of the engine.
EngineNext ==
    \/ \E org \in CfgOrgSlugs : RunMain(org)
    \/ ItemReturns
    \/ \E res \in {"ok", "unsent"} : UploadPreviews(res)
    \/ \E res \in {"ok", "unsent", "lost"} : SendIngest(res)
    \/ \E res \in {"ok", "unsent", "lost"} : UploadOriginals(res)
    \/ \E res \in {"ok", "unsent", "lost"} : SendConfirm(res)
    \/ \E res \in {"ok", "unsent", "lost"} : SendStart(res)
    \/ \E res \in {"ok", "unsent"} : SendSignedUrls(res)
    \/ \E res \in {"ok", "unsent", "lost"} : SendStop(res)

NextDevice == EngineNext \/ NetChanges

SpecDevice == InitDevice /\ [][NextDevice]_vars

\* ------------------------------------------------------------ properties
\* The slug of the org a job belongs to.
OwnerSlug(j) == (CHOOSE o \in orgs : o.id = j.org_id).slug

\* The diamonds of a coordinate (job, ring_label, slot_index).
CoordDiamonds(job_id, ring_label, slot_index) ==
    {d \in diamonds :
        /\ d.job_id = job_id
        /\ d.slot_index = slot_index
        /\ \E r \in rings : r.id = d.ring_id /\ r.job_id = job_id /\ r.ring_label = ring_label}

\* The ingest-scan requests for a job made in the name of the job's org.
OwnIngests(j) == {p \in IngestPayloads : p.job_id = j.id /\ p.org_slug = OwnerSlug(j)}

\* The confirm-originals requests for a job made in the name of its org, for
\* a slot that has been ingested.
OwnConfirms(j) ==
    {p \in ConfirmPayloads :
        /\ p.job_id = j.id
        /\ p.org_slug = OwnerSlug(j)
        /\ CoordDiamonds(j.id, p.ring_label, p.slot_index) # {}}

\* The canonical path of an original.
OriginalPath(j, ring_label, slot_index, t) ==
    OwnerSlug(j) \o Slash \o j.id \o Slash \o ring_label \o Slash \o SlotPrefix
        \o Str(slot_index) \o (IF t = "UV_FREE" THEN UvFreeSuffix ELSE AsetSuffix)

\* The requested image types of p whose original is in the bucket.
Present(j, p) ==
    {t \in Range(p.image_types) : OriginalPath(j, p.ring_label, p.slot_index, t) \in storage}

\* The image row of a coordinate for an image type.
RowsOf(images, j, p, t) ==
    {r \in images :
        /\ r.image_type = t
        /\ \E d \in CoordDiamonds(j.id, p.ring_label, p.slot_index) : r.diamond_id = d.id}

\* C1: a coordinate never has more than one Diamond: an ingest-scan for a
\* coordinate without a Diamond, on a job that accepts ingestion, creates
\* exactly one Diamond and its two image rows, and an ingest-scan for a
\* coordinate that has its Diamond ends in 409 and leaves diamonds and
\* diamond_images as they are.
C1_OneDiamondPerCoordinate ==
    \A j \in jobs : \A p \in OwnIngests(j) :
        LET out == ingest_scan_out(DEVICE_API_KEY, p)
            have == CoordDiamonds(j.id, p.ring_label, p.slot_index)
        IN  /\ Cardinality(have) <= 1
            /\ have # {} =>
                    /\ out.code = 409
                    /\ out.diamonds = diamonds
                    /\ out.diamond_images = diamond_images
            /\ (have = {} /\ j.status \in {"SCANNING", "PAUSED"}) =>
                    /\ out.code = 200
                    /\ diamonds \subseteq out.diamonds
                    /\ Cardinality(out.diamonds \ diamonds) = 1
                    /\ \A d \in out.diamonds \ diamonds :
                            /\ d.job_id = j.id
                            /\ d.slot_index = p.slot_index
                            /\ d.id = out.body.diamond_id
                            /\ \E r \in out.rings : r.id = d.ring_id /\ r.ring_label = p.ring_label
                    /\ Cardinality(out.diamond_images \ diamond_images) = 2

\* C1 witness: both slots of a ring have been ingested and the job still
\* accepts ingestion, so that a retry reaches the Diamond lookup.
C1_Witness ==
    \E j \in jobs :
        /\ j.status = "SCANNING"
        /\ CoordDiamonds(j.id, <<"A">>, 0) # {}
        /\ CoordDiamonds(j.id, <<"A">>, 1) # {}

\* C2: an image row becomes original_ready only in a step of
\* confirm-originals in which the storage service answered 200 to the HEAD
\* on that row's own storage_path in the originals bucket.
C2_ReadyOnlyAfterOracle ==
    [][\A r2 \in diamond_images' :
            (r2.original_ready /\ ~\E r1 \in diamond_images : r1.id = r2.id /\ r1.original_ready)
            => \E p \in ConfirmPayloads : \E errAt \in ErrAts(p) :
                    /\ confirm_originals(DEVICE_API_KEY, p, errAt)
                    /\ \E i \in 1..Len(p.image_types) :
                            /\ errAt = 0 \/ i <= errAt
                            /\ Expected(p, p.image_types[i]) = r2.storage_path
                            /\ r2.storage_path \in storage
                            /\ i # errAt]_vars

\* C2 witness: an image row is original_ready.
C2_Witness == \E r \in diamond_images : r.original_ready

\* C3: an image row that is original_ready stays so in every step.
C3_ReadyIsMonotonic ==
    [][\A r1 \in diamond_images :
            r1.original_ready => \E r2 \in diamond_images' : r2.id = r1.id /\ r2.original_ready]_vars

\* C3 witness: one row of a Diamond is original_ready while the original of
\* the other row is not in the bucket, so that a confirm-originals for both
\* finds one missing.
C3_Witness ==
    \E r1, r2 \in diamond_images :
        /\ r1.diamond_id = r2.diamond_id
        /\ r1.original_ready
        /\ ~r2.original_ready
        /\ r2.storage_path \notin storage

\* C4 (as claimed): once a stop has gone through on a job (its ended_at is
\* set, which only jobs_stop does), every ingest-scan for that job ends in
\* 409 and creates no Diamond.
C4_StopIsPermanent ==
    \A j \in jobs : j.ended_at # NULL =>
        \A p \in OwnIngests(j) :
            /\ ingest_scan_out(DEVICE_API_KEY, p).code = 409
            /\ ingest_scan_out(DEVICE_API_KEY, p).diamonds = diamonds

\* The transitions of the job state machine.
JobTransitions ==
    {<<"SCANNING", "PAUSED">>, <<"PAUSED", "SCANNING">>,
     <<"SCANNING", "PROCESSING">>, <<"PAUSED", "PROCESSING">>}

\* C5 (as claimed): a job is created in SCANNING, its status changes only
\* along the listed transitions, and a job in PROCESSING, DONE or FAILED
\* keeps its status.
C5_OnlyListedTransitions ==
    [][\A j2 \in jobs' :
            IF \E j1 \in jobs : j1.id = j2.id
            THEN \A j1 \in jobs : j1.id = j2.id =>
                    \/ j1.status = j2.status
                    \/ <<j1.status, j2.status>> \in JobTransitions
            ELSE j2.status = "SCANNING"]_vars

\* C6: an ingest-scan that succeeds found the job in SCANNING or PAUSED; for
\* a job in any other status it ends in 409 and creates no Ring, Diamond or
\* image row.
C6_IngestOnlyWhileOpen ==
    /\ \A p \in IngestPayloads :
            ingest_scan_out(DEVICE_API_KEY, p).code = 200 =>
                \E j \in jobs : j.id = p.job_id /\ j.status \in {"SCANNING", "PAUSED"}
    /\ \A j \in jobs : j.status \notin {"SCANNING", "PAUSED"} =>
            \A p \in OwnIngests(j) :
                LET out == ingest_scan_out(DEVICE_API_KEY, p)
                IN  /\ out.code = 409
                    /\ out.rings = rings
                    /\ out.diamonds = diamonds
                    /\ out.diamond_images = diamond_images

\* C6 witness: a stopped job that has no Ring yet.
C6_Witness == \E j \in jobs : j.status = "PROCESSING" /\ rings = {}

\* C7 (as claimed): while a job is PAUSED an ingest-scan for a coordinate
\* without a Diamond ends in 409.
C7_PauseBlocksIngestion ==
    \A j \in jobs : j.status = "PAUSED" =>
        \A p \in OwnIngests(j) :
            CoordDiamonds(j.id, p.ring_label, p.slot_index) = {}
                => ingest_scan_out(DEVICE_API_KEY, p).code = 409

\* C7 (amended): while a job is PAUSED an ingest-scan for a coordinate
\* without a Diamond is accepted and creates the Diamond, as it is while the
\* job is SCANNING; a resume of a PAUSED job puts it in SCANNING.
C7_PauseDoesNotBlockIngestion ==
    \A j \in jobs : j.status \in {"PAUSED", "SCANNING"} =>
        /\ \A p \in OwnIngests(j) :
                CoordDiamonds(j.id, p.ring_label, p.slot_index) = {}
                    => /\ ingest_scan_out(DEVICE_API_KEY, p).code = 200
                       /\ ingest_scan_out(DEVICE_API_KEY, p).diamonds # diamonds
        /\ LET out == jobs_resume_out(DEVICE_API_KEY, j.id, OwnerSlug(j))
           IN  /\ out.code = 200
               /\ out.body.status = "SCANNING"
               /\ \A j2 \in out.jobs : j2.id = j.id => j2.status = "SCANNING"

\* C7 witness: a Diamond of a job that was paused when the Diamond could
\* only have come from an ingest-scan, and another slot still to ingest.
C7_Witness ==
    \E j \in jobs :
        /\ j.status = "PAUSED"
        /\ j.ended_at = NULL
        /\ CoordDiamonds(j.id, <<"A">>, 0) # {}
        /\ CoordDiamonds(j.id, <<"A">>, 1) = {}

\* C8: a confirm-originals for an ingested slot, none of whose requested
\* originals is in the bucket, writes nothing, whatever the storage service
\* answers; and the rows of a slot none of whose originals is in the bucket
\* have original_ready = false and no original_uploaded_at.
C8_ConfirmNothingFoundWritesNothing ==
    \A j \in jobs : \A p \in OwnConfirms(j) :
        /\ Present(j, p) = {} =>
                \A errAt \in ErrAts(p) :
                    LET out == confirm_originals_out(DEVICE_API_KEY, p, errAt)
                    IN  /\ out.code # 200
                        /\ out.diamond_images = diamond_images
                        /\ out.diamonds = diamonds
                        /\ out.rings = rings
                        /\ out.jobs = jobs
                        /\ out.devices = devices
        /\ (\A t \in ImageTypes : OriginalPath(j, p.ring_label, p.slot_index, t) \notin storage) =>
                \A t \in ImageTypes : \A r \in RowsOf(diamond_images, j, p, t) :
                    ~r.original_ready /\ r.original_uploaded_at = NULL

\* C8 witness: an ingested slot with no original in the bucket, and another
\* slot of the job whose rows are original_ready.
C8_Witness ==
    \E j \in jobs :
        /\ CoordDiamonds(j.id, <<"A">>, 0) # {}
        /\ \A t \in ImageTypes : OriginalPath(j, <<"A">>, 0, t) \notin storage
        /\ \E d \in CoordDiamonds(j.id, <<"A">>, 1) :
                \A r \in ImagesOf(d.id) : r.original_ready

OneOfTwo(j, p) == Range(p.image_types) = ImageTypes /\ Cardinality(Present(j, p)) = 1

C11_ConfirmBoth ==
    \A j \in jobs : \A p \in OwnConfirms(j) :
        (p.image_types = <<"UV_FREE", "ASET">> /\ Present(j, p) = ImageTypes) =>
            LET out == confirm_originals_out(DEVICE_API_KEY, p, 0)
            IN  /\ out.code = 200
                /\ out.body.confirmed = <<"UV_FREE", "ASET">>
                /\ out.body.missing = <<>>
                /\ \A t \in ImageTypes :
                        /\ RowsOf(out.diamond_images, j, p, t) # {}
                        /\ \A r \in RowsOf(out.diamond_images, j, p, t) : r.original_ready

\* C11 witness: both originals of an ingested slot are in the bucket and
\* both of its rows are original_ready, while the other slot is ingested and
\* not confirmed.
C11_Witness ==
    \E j \in jobs :
        /\ \A t \in ImageTypes : OriginalPath(j, <<"A">>, 0, t) \in storage
        /\ \E d \in CoordDiamonds(j.id, <<"A">>, 0) :
                \A r \in ImagesOf(d.id) : r.original_ready
        /\ \E d \in CoordDiamonds(j.id, <<"A">>, 1) :
                \A r \in ImagesOf(d.id) : ~r.original_ready

\* The canonical path function:
\* "{org_slug}/{job_id}/{ring_label}/slot_{slot_index}_{kind}.jpg".
CanonicalPath(org_slug, job_id, ring_label, slot_index, kind) ==
    org_slug \o <<"/">> \o job_id \o <<"/">> \o ring_label \o <<"/">>
        \o <<"s", "l", "o", "t", "_">> \o Str(slot_index) \o <<"_">> \o kind
        \o <<".", "j", "p", "g">>

KindUvFree == <<"u", "v", "_", "f", "r", "e", "e">>

KindAset == <<"a", "s", "e", "t">>

KindUvFreeThumb == KindUvFree \o <<"_", "t", "h", "u", "m", "b">>

KindAsetThumb == KindAset \o <<"_", "t", "h", "u", "m", "b">>

\* The original and the preview kind of an image type.
KindOf(t) == IF t = "UV_FREE" THEN KindUvFree ELSE KindAset

ThumbKindOf(t) == IF t = "UV_FREE" THEN KindUvFreeThumb ELSE KindAsetThumb

\* The signed-URLs requests for a job made in the name of the job's org.
OwnSigned(j) == {p \in SignedPayloads : p.job_id = j.id /\ p.org_slug = OwnerSlug(j)}

\* C19: for every coordinate the four paths the signed-URLs step returns,
\* the storage_path and preview_storage_path ingest-scan stores (in the rows
\* it would insert and in every row of the table), and the paths
\* confirm-originals asks the Oracle about, are the values of the canonical
\* path function; so they are the same in every state.
C19_OneCanonicalPath ==
    \A j \in jobs :
        /\ \A p \in OwnSigned(j) :
                LET out == create_signed_urls_out(DEVICE_API_KEY, p, TRUE)
                    path(kind) == CanonicalPath(p.org_slug, p.job_id, p.ring_label,
                                                p.slot_index, kind)
                IN  /\ out.code = 200
                    /\ out.body.uv_free_path = path(KindUvFree)
                    /\ out.body.aset_path = path(KindAset)
                    /\ out.body.uv_free_preview_path = path(KindUvFreeThumb)
                    /\ out.body.aset_preview_path = path(KindAsetThumb)
        /\ \A p \in OwnIngests(j) :
                LET out == ingest_scan_out(DEVICE_API_KEY, p)
                IN  \A r \in out.diamond_images \ diamond_images :
                        /\ r.storage_path = CanonicalPath(p.org_slug, p.job_id, p.ring_label,
                                                          p.slot_index, KindOf(r.image_type))
                        /\ r.preview_storage_path =
                                CanonicalPath(p.org_slug, p.job_id, p.ring_label,
                                              p.slot_index, ThumbKindOf(r.image_type))
        /\ \A rg \in rings : \A s \in SlotIndexes : rg.job_id = j.id =>
                \A d \in CoordDiamonds(j.id, rg.ring_label, s) : \A r \in ImagesOf(d.id) :
                    /\ r.storage_path = CanonicalPath(OwnerSlug(j), j.id, rg.ring_label, s,
                                                      KindOf(r.image_type))
                    /\ r.preview_storage_path =
                            CanonicalPath(OwnerSlug(j), j.id, rg.ring_label, s,
                                          ThumbKindOf(r.image_type))
        /\ \A p \in OwnConfirms(j) : \A errAt \in ErrAts(p) :
                \A i \in DOMAIN OracleLog(p, errAt) :
                    OracleLog(p, errAt)[i][1] =
                        CanonicalPath(p.org_slug, p.job_id, p.ring_label, p.slot_index,
                                      KindOf(p.image_types[i]))

\* C19 witness: both slots are ingested and their four rows are stored.
C19_Witness ==
    \E j \in jobs :
        /\ CoordDiamonds(j.id, <<"A">>, 0) # {}
        /\ CoordDiamonds(j.id, <<"A">>, 1) # {}
        /\ Cardinality(diamond_images) = 4

\* The job and the org slug of the Diamond an image row belongs to.
JobOfRow(r) ==
    CHOOSE j \in jobs : \E d \in diamonds : d.id = r.diamond_id /\ d.job_id = j.id

\* The paths a request to ingest-scan carries.
ClientPaths(p) == {p.uv_free_path, p.aset_path, p.uv_free_preview_path, p.aset_preview_path}

\* C20: a signed-URLs call that issues URLs, an ingest-scan that stores
\* rows and a confirm-originals that reaches the Oracle are made for a job
\* of the org of the request, and every path issued, stored or passed to the
\* Oracle starts with "{org_slug}/{job_id}/" of that org and job; every row
\* of the table has paths under its own job and that job's org; a request
\* carrying paths of its own stores none of them.
C20_PathsUnderOrgAndJob ==
    /\ \A p \in SignedPayloads :
            LET out == create_signed_urls_out(DEVICE_API_KEY, p, TRUE)
                prefix == p.org_slug \o <<"/">> \o p.job_id \o <<"/">>
            IN  out.code = 200 =>
                    /\ \E j \in jobs : j.id = p.job_id /\ OwnerSlug(j) = p.org_slug
                    /\ \A url \in {out.body.uv_free_signed_url, out.body.aset_signed_url,
                                   out.body.uv_free_preview_signed_url,
                                   out.body.aset_preview_signed_url} :
                            StartsWith(url[2], prefix)
    /\ \A p \in IngestPayloads :
            LET out == ingest_scan_out(DEVICE_API_KEY, p)
                prefix == p.org_slug \o <<"/">> \o p.job_id \o <<"/">>
            IN  out.diamond_images # diamond_images =>
                    /\ \E j \in jobs : j.id = p.job_id /\ OwnerSlug(j) = p.org_slug
                    /\ \A r \in out.diamond_images \ diamond_images :
                            /\ StartsWith(r.storage_path, prefix)
                            /\ StartsWith(r.preview_storage_path, prefix)
                            /\ p = ForeignPayload(p.org_slug, p.job_id, p.ring_label, p.slot_index)
                                    => {r.storage_path, r.preview_storage_path}
                                            \cap ClientPaths(p) = {}
    /\ \A r \in diamond_images :
            LET j == JobOfRow(r)
                prefix == OwnerSlug(j) \o <<"/">> \o j.id \o <<"/">>
            IN  /\ StartsWith(r.storage_path, prefix)
                /\ StartsWith(r.preview_storage_path, prefix)
    /\ \A p \in ConfirmPayloads : \A errAt \in ErrAts(p) :
            LET out == confirm_originals_out(DEVICE_API_KEY, p, errAt)
                prefix == p.org_slug \o <<"/">> \o p.job_id \o <<"/">>
            IN  out.code \in {200, 409, 502} =>
                    /\ \E j \in jobs : j.id = p.job_id /\ OwnerSlug(j) = p.org_slug
                    /\ \A i \in DOMAIN OracleLog(p, errAt) :
                            StartsWith(OracleLog(p, errAt)[i][1], prefix)

\* C20 witness: a slot ingested for a job of acme, with its rows stored, and
\* the other slot still to ingest.
C20_Witness ==
    \E j \in jobs :
        /\ OwnerSlug(j) = acme
        /\ j.status \in IngestStatuses
        /\ \E d \in CoordDiamonds(j.id, <<"A">>, 0) : ImagesOf(d.id) # {}
        /\ CoordDiamonds(j.id, <<"A">>, 1) = {}

\* The workers whose request was for a coordinate.
WorkersOn(ring_label, slot_index) ==
    {w \in Workers : /\ inflight[w].pc # "idle"
                     /\ inflight[w].p.ring_label = ring_label
                     /\ inflight[w].p.slot_index = slot_index}

\* C12 (as claimed): whatever the interleaving of two ingest-scan requests
\* for the same coordinate, the coordinate has at most one Diamond and at
\* most one of the two requests ends in 200.
C12_ConcurrentIngestOneDiamond ==
    \A rl \in RingLabels : \A s \in SlotIndexes :
        /\ Cardinality(CoordDiamonds(Uuid(1), rl, s)) <= 1
        /\ Cardinality({w \in WorkersOn(rl, s) : inflight[w].code = 200}) <= 1

\* C13 (as claimed): in every state each Diamond has exactly two image
\* rows, one UV_FREE and one ASET.
C13_TwoImageRowsPerDiamond ==
    \A d \in diamonds :
        /\ Cardinality(ImagesOf(d.id)) = 2
        /\ \A t \in ImageTypes : \E r \in ImagesOf(d.id) : r.image_type = t

\* The work items the engine holds: the one in process_queue_item, kept,
\* the delayed originals, and the queue file (during a drain pass, the
\* loaded queue).
ItemsAtHand ==
    (IF eng.pc \in ItemPhases THEN {eng.item} ELSE {})
        \cup Range(eng.kept) \cup Range(eng.delayed) \cup Range(queue)

\* The steps before a step, in the fixed order.
StepsBefore(step) ==
    CASE step = "previews" -> {}
      [] step = "ingest" -> {"previews"}
      [] step = "originals" -> {"previews", "ingest"}
      [] step = "confirm" -> {"previews", "ingest", "originals"}
      [] step = "return" -> {}

\* C16: every work item, in memory or in the queue file, has its flags in
\* the step order (originals_confirmed => original_uploaded => ingested =>
\* preview_uploaded), and the step process_queue_item is about to attempt
\* has the flags of all the steps before it set.
C16_FlagsRespectStepOrder ==
    /\ \A item \in ItemsAtHand :
            /\ item.state.originals_confirmed => item.state.original_uploaded
            /\ item.state.original_uploaded => item.state.ingested
            /\ item.state.ingested => item.state.preview_uploaded
    /\ eng.pc \in ItemPhases =>
            \A step \in StepsBefore(NextStep(eng.item, ModeNow)) :
                eng.item.state[FlagOf(step)]

\* C16 witness: a drain pass is about to confirm the originals of an item
\* it loaded from the queue file with three flags set.
C16_Witness ==
    /\ eng.pc = "drain"
    /\ queue[eng.i].state.original_uploaded
    /\ NextStep(eng.item, ModeNow) = "confirm"

\* A step of the item in hand was attempted and failed: the engine moved
\* and the item's flag for the step was not set.
StepFailed ==
    /\ eng.pc \in ItemPhases
    /\ NextStep(eng.item, ModeNow) # "return"
    /\ eng' # eng
    /\ ~(eng'.pc = eng.pc /\ eng'.item.state[FlagOf(NextStep(eng.item, ModeNow))])

\* C17: when a step of an item fails during a drain pass, the pass is over
\* (the engine goes on to /jobs/start without touching a later item) and
\* the queue file holds the item with the flags it had before the step.
C17_DrainStopsAtFailure ==
    [][(eng.pc = "drain" /\ StepFailed) =>
            /\ eng'.pc = "start"
            /\ \E n \in DOMAIN queue' : queue'[n] = eng.item]_vars

\* C17 witness: a drain pass of a queue of two items has just ended at a
\* failure, and the queue file holds an item that is ingested and not
\* confirmed.
C17_Witness ==
    /\ eng.pc = "start"
    /\ Cardinality(everQueued) = 2
    /\ \E n \in DOMAIN queue : queue[n].state.ingested /\ ~queue[n].state.originals_confirmed

\* The statuses the specification calls terminal: Forbidden, NotFound,
\* Conflict, validation error.
TerminalStatuses == {403, 404, 409, 422}

\* C14 (as claimed): when the server call a drain pass makes for a queued
\* item is answered with a terminal status, the item is not in the queue
\* file afterwards.
C14_TerminalStatusDropsItem ==
    [][(eng.pc = "drain" /\ StepFailed /\ eng'.code \in TerminalStatuses) =>
            \A n \in DOMAIN queue' : CoordOf(queue'[n]) # CoordOf(eng.item)]_vars

DeviceCoords == {<<Uuid(r), CfgRingLabel, s>> : r \in 1..MaxRuns, s \in CfgSlotRange}

\* The server holds the coordinate's Diamond with its two image rows, both
\* with original_ready set.
Delivered(c) ==
    \E d \in CoordDiamonds(c[1], c[2], c[3]) :
        /\ Cardinality(ImagesOf(d.id)) = 2
        /\ \A r \in ImagesOf(d.id) : r.original_ready

\* From this state on every network call succeeds, the jobs accept
\* ingestion, and the device is one that uploads originals.
AllGoesWell ==
    /\ net = "up"
    /\ \A j \in jobs : j.status \in IngestStatuses
    /\ eng.mode # "never"

\* The engine keeps running: a step of main() that can be taken is taken,
\* and main() is run again after it has returned.
SpecDeviceFair == SpecDevice /\ WF_vars(EngineNext)

\* C18 (as claimed): if from some point on all goes well, every item that
\* was ever placed in the queue file is eventually delivered.
C18_EventualDelivery ==
    (<>[]AllGoesWell) =>
        \A c \in DeviceCoords : [](c \in everQueued => <>Delivered(c))

\* The outcome left every table as it is.
NothingWritten(out) ==
    /\ out.devices = devices
    /\ out.jobs = jobs
    /\ out.rings = rings
    /\ out.diamonds = diamonds
    /\ out.diamond_images = diamond_images

\* The request was refused with the code, with no data and no write.
Refused(out, code) == out.code = code /\ out.body = NoBody /\ NothingWritten(out)

\* What the specification asks for (org_slug, job_id): 404 when no job has
\* the id, 403 when the job is another org's, 0 when the job is the org's.
JobRefusal(org_slug, job_id) ==
    IF \A j \in jobs : j.id # job_id THEN 404
    ELSE IF \A j \in jobs : j.id = job_id => j.org_id \notin {o.id : o \in OrgRows(org_slug)}
         THEN 403
    ELSE 0

\* A signed-URLs request.
SignedRequest(org_slug, job_id, ring_label, slot_index, mode) ==
    [org_slug |-> org_slug, job_id |-> job_id, ring_label |-> ring_label,
     slot_index |-> slot_index, mode |-> mode]

\* A confirm-originals request.
ConfirmRequest(org_slug, job_id, ring_label, slot_index, image_types) ==
    [org_slug |-> org_slug, job_id |-> job_id, ring_label |-> ring_label,
     slot_index |-> slot_index, image_types |-> image_types]

\* The refusals of the job lookup, in one state.
JobLookupRefuses ==
    \A org_slug \in {o.slug : o \in orgs} : \A job_id \in JobIdInputs :
        LET code == JobRefusal(org_slug, job_id)
        IN  code # 0 =>
            /\ Refused(jobs_pause_out(DEVICE_API_KEY, job_id, org_slug), code)
            /\ Refused(jobs_resume_out(DEVICE_API_KEY, job_id, org_slug), code)
            /\ Refused(jobs_stop_out(DEVICE_API_KEY, job_id, org_slug), code)
            /\ \A r \in RingLabels : \A s \in SlotIndexes :
                /\ \A m \in SignedUrlModes : \A up \in BOOLEAN :
                    LET p == SignedRequest(org_slug, job_id, r, s, m)
                    IN  /\ Refused(create_signed_urls_out(DEVICE_API_KEY, p, up), code)
                        /\ SignedUrlCalls(DEVICE_API_KEY, p) = {}
                /\ Refused(ingest_scan_out(DEVICE_API_KEY,
                                           DevicePayload(org_slug, job_id, r, s)), code)
                /\ Refused(ingest_scan_out(DEVICE_API_KEY,
                                           ForeignPayload(org_slug, job_id, r, s)), code)
                /\ \A ts \in ImageTypeLists : \A errAt \in 0..Len(ts) :
                    Refused(confirm_originals_out(DEVICE_API_KEY,
                                ConfirmRequest(org_slug, job_id, r, s, ts), errAt), code)

\* C21: in every state the operations reach, for an org that exists and a
\* job id that no job has, or that a job of another org has, pause, resume,
\* stop, signed-URLs, ingest-scan and confirm-originals end in 404,
\* respectively 403, write nothing, and signed-URLs asks the storage service
\* for no URL.
C21_JobLookupRefuses == []JobLookupRefuses

\* C21 witness: the job of acme is open and has a Diamond, so that the
\* requests of beta for its id are the Forbidden case and the requests of
\* acme for the other id the NotFound case.
C21_Witness ==
    /\ JobRefusal(beta, Uuid(1)) = 403
    /\ JobRefusal(acme, Uuid(0)) = 404
    /\ \E j \in jobs : j.status \in IngestStatuses
    /\ diamonds # {}

\* The refusals of the device key check, in one state.
WrongKeyRefused ==
    \A key \in DeviceKeys \ {DEVICE_API_KEY} :
        /\ \A p \in StartPayloads : Refused(jobs_start_out(key, p), 401)
        /\ \A oj \in OrgJobInputs :
            /\ Refused(jobs_pause_out(key, oj[2], oj[1]), 401)
            /\ Refused(jobs_resume_out(key, oj[2], oj[1]), 401)
            /\ Refused(jobs_stop_out(key, oj[2], oj[1]), 401)
        /\ \A p \in SignedPayloads : \A up \in BOOLEAN :
            /\ Refused(create_signed_urls_out(key, p, up), 401)
            /\ SignedUrlCalls(key, p) = {}
        /\ \A p \in IngestPayloads : Refused(ingest_scan_out(key, p), 401)
        /\ \A p \in ConfirmPayloads : \A errAt \in ErrAts(p) :
            Refused(confirm_originals_out(key, p, errAt), 401)

\* C22: in every state the operations reach, with a device key that is not
\* the configured one, start, pause, resume, stop, signed-URLs, ingest-scan
\* and confirm-originals end in 401 and write nothing, whatever the rest of
\* the request.
C22_WrongKeyRefused == []WrongKeyRefused

\* C22 witness: an ingest-scan and a stop that go through with the
\* configured key, on a job with a Diamond whose originals can be confirmed.
C22_Witness ==
    /\ \E p \in IngestPayloads : ingest_scan_out(DEVICE_API_KEY, p).code = 200
    /\ \E p \in ConfirmPayloads : confirm_originals_out(DEVICE_API_KEY, p, 0).code = 200
    /\ jobs_stop_out(DEVICE_API_KEY, Uuid(1), acme).code = 200

\* Table orgs and the refusals of the org lookup, in one state.
NoOrgCreated ==
    /\ orgs = ProvisionedOrgs
    /\ \A org_slug \in OrgSlugs \ {o.slug : o \in orgs} : \A job_id \in JobIdInputs :
         /\ \A d \in DeviceNames :
             Refused(jobs_start_out(DEVICE_API_KEY,
                                    [org_slug |-> org_slug, device_name |-> d]), 404)
         /\ Refused(jobs_pause_out(DEVICE_API_KEY, job_id, org_slug), 404)
         /\ Refused(jobs_resume_out(DEVICE_API_KEY, job_id, org_slug), 404)
         /\ Refused(jobs_stop_out(DEVICE_API_KEY, job_id, org_slug), 404)
         /\ \A r \in RingLabels : \A s \in SlotIndexes :
             /\ \A m \in SignedUrlModes : \A up \in BOOLEAN :
                 Refused(create_signed_urls_out(DEVICE_API_KEY,
                             SignedRequest(org_slug, job_id, r, s, m), up), 404)
             /\ Refused(ingest_scan_out(DEVICE_API_KEY,
                                        DevicePayload(org_slug, job_id, r, s)), 404)
             /\ \A ts \in ImageTypeLists : \A errAt \in 0..Len(ts) :
                 Refused(confirm_originals_out(DEVICE_API_KEY,
                             ConfirmRequest(org_slug, job_id, r, s, ts), errAt), 404)

\* C23: in every state the operations reach, table orgs holds the
\* provisioned rows and no other, and with a slug that no Org has every
\* operation ends in 404 and writes nothing.
C23_NoOrgCreated == []NoOrgCreated

\* C23 witness: a job exists whose id the requests with the unknown slug
\* carry.
C23_Witness ==
    /\ ghost \notin {o.slug : o \in orgs}
    /\ \E j \in jobs : j.id = Uuid(1) /\ j.status = "PAUSED"
    /\ diamonds # {}

\* C24: a start that succeeds returns an id that no job has, adds one job
\* with that id in status SCANNING, and leaves every job there was as it
\* is, whatever jobs exist already, those of the same org, device and
\* external_ref included.
C24_StartAddsFreshJob ==
    \A p \in StartPayloadsRef :
        LET out == jobs_start_out(DEVICE_API_KEY, p)
        IN  out.code = 200 =>
            /\ out.body.job_id \notin {j.id : j \in jobs}
            /\ out.body.status = "SCANNING"
            /\ jobs \subseteq out.jobs
            /\ Cardinality(out.jobs) = Cardinality(jobs) + 1
            /\ \A j \in out.jobs \ jobs :
                /\ j.id = out.body.job_id
                /\ j.status = "SCANNING"
                /\ j.external_ref = p.external_ref

\* C24 witness: a start was repeated with the org, device and external_ref
\* of a job started earlier and paused since; both jobs are there.
C24_Witness ==
    \E j1 \in jobs : \E j2 \in jobs :
        /\ j1.id # j2.id
        /\ j1.org_id = j2.org_id
        /\ j1.device_id = j2.device_id /\ j1.device_id # NoDevice
        /\ j1.external_ref = j2.external_ref /\ j1.external_ref # NoRef
        /\ j1.status = "PAUSED" /\ j1.paused_at # NULL
        /\ j2.status = "SCANNING"

\* The (path, url) fields of a signed-URLs response, by kind.
OriginalFields ==
    {"uv_free_path", "aset_path", "uv_free_signed_url", "aset_signed_url"}

PreviewFields ==
    {"uv_free_preview_path", "aset_preview_path",
     "uv_free_preview_signed_url", "aset_preview_signed_url"}

\* The fields of the response that carry a value.
Returned(body) == {f \in OriginalFields \cup PreviewFields : body[f] # NoPath}

\* C25: a signed-URLs call that succeeds returns the pairs of the requested
\* mode and no other (both: the four pairs, previews: the two preview pairs,
\* originals: the two original pairs), and the storage service was asked to
\* sign exactly the returned paths.
C25_OnlyRequestedMode ==
    \A p \in SignedPayloads :
        LET out == create_signed_urls_out(DEVICE_API_KEY, p, TRUE)
            asked == SignedUrlCalls(DEVICE_API_KEY, p)
        IN  out.code = 200 =>
            /\ Returned(out.body) =
                    CASE p.mode = "both" -> OriginalFields \cup PreviewFields
                      [] p.mode = "previews" -> PreviewFields
                      [] p.mode = "originals" -> OriginalFields
            /\ asked = {<<ORIGINALS_BUCKET, out.body[f]>> :
                            f \in {"uv_free_path", "aset_path"} \cap Returned(out.body)}
                       \cup {<<PREVIEWS_BUCKET, out.body[f]>> :
                            f \in {"uv_free_preview_path", "aset_preview_path"}
                                    \cap Returned(out.body)}

\* The writes of the signed-URLs calls, in one state.
SignedUrlsWritesNothing ==
    \A key \in DeviceKeys : \A oj \in OrgJobInputs : \A r \in RingLabels :
        \A s \in SlotIndexes : \A m \in SignedUrlModes : \A up \in BOOLEAN :
            LET out == create_signed_urls_out(key, SignedRequest(oj[1], oj[2], r, s, m), up)
            IN  /\ NothingWritten(out)
                /\ out.code \in {200, 401, 403, 404, 500}

\* C26: in every state the operations reach, a signed-URLs call, whether it
\* succeeds or fails and whatever it asks for, leaves devices, jobs, rings,
\* diamonds and image rows as they are (orgs is written by no operation).
C26_SignedUrlsWritesNothing == []SignedUrlsWritesNothing

\* C26 witness: the store holds a job with a Ring, a Diamond and its image
\* rows, and a slot of the ring has no Diamond; the call for that slot
\* succeeds when the storage service signs and fails when it does not.
C26_Witness ==
    /\ diamond_images # {}
    /\ \E p \in SignedPayloads :
        /\ create_signed_urls_out(DEVICE_API_KEY, p, TRUE).code = 200
        /\ create_signed_urls_out(DEVICE_API_KEY, p, FALSE).code = 500
        /\ \A d \in diamonds : d.slot_index # p.slot_index

\* The preview path an ingest-scan request carries for an image type.
PreviewPathSupplied(p, image_type) ==
    IF image_type = "UV_FREE" THEN p.uv_free_preview_path ELSE p.aset_preview_path

\* C27: the image rows an ingest-scan creates have preview_ready true for
\* the image types whose preview path the request carries, and false for
\* the others.
C27_PreviewReadyOnlyIfSupplied ==
    \A p \in IngestPayloads :
        LET out == ingest_scan_out(DEVICE_API_KEY, p)
        IN  out.code = 200 =>
            \A r \in out.diamond_images \ diamond_images :
                r.preview_ready = (PreviewPathSupplied(p, r.image_type) # NoPath)

\* The outcomes of the existence checks that get no definitive answer, in
\* one state.
UpstreamUnavailable ==
    \A p \in ConfirmPayloads : \A errAt \in 1..Len(p.image_types) :
        LET out == confirm_originals_out(DEVICE_API_KEY, p, errAt)
        IN  confirm_originals_out(DEVICE_API_KEY, p, 0).code \in {200, 409} =>
            /\ out.code = 502
            /\ out.code # confirm_originals_out(DEVICE_API_KEY, p, 0).code
            /\ out.body = NoBody
            /\ NothingWritten(out)

\* C28: in every state the operations reach, in a confirm-originals call
\* that gets to the existence checks, when one check gets no definitive
\* answer the call ends in 502, which is not the code of the missing
\* outcome, carries no list of missing paths and changes no table, whatever
\* the checks before it found.
C28_UpstreamUnavailable == []UpstreamUnavailable

\* C28 witness: the first requested original is in the bucket and is found,
\* the second check gets no definitive answer.
C28_Witness ==
    \E p \in ConfirmPayloads :
        /\ Len(p.image_types) = 2
        /\ OracleLog(p, 2)[1][2] = "true"
        /\ OracleLog(p, 2)[2][2] = "raise"
        /\ confirm_originals_out(DEVICE_API_KEY, p, 2).code = 502
        /\ \E r \in diamond_images : ~r.original_ready

\* C29: when two ingest-scan requests for different slots of the same ring
\* of an open job, handled at the same time with the Ring absent at first
\* and neither cut short by a failure of the store, have both ended, there
\* is exactly one Ring for (job_id, ring_label), both got 200, and every
\* Diamond of the job references that Ring.
C29_ConcurrentIngestOneRing ==
    (/\ \A w \in Workers : inflight[w].pc = "done" /\ inflight[w].code # 500
     /\ \A w1 \in Workers : \A w2 \in Workers :
            w1 # w2 => /\ inflight[w1].p.job_id = inflight[w2].p.job_id
                       /\ inflight[w1].p.ring_label = inflight[w2].p.ring_label
                       /\ inflight[w1].p.slot_index # inflight[w2].p.slot_index
     /\ \A j \in jobs : j.status = "SCANNING")
    => \A w \in Workers :
        /\ Cardinality(RingRows(inflight[w].p.job_id, inflight[w].p.ring_label)) = 1
        /\ inflight[w].code = 200
        /\ \A d \in diamonds :
            d.job_id = inflight[w].p.job_id =>
                d.ring_id \in {r.id : r \in RingRows(inflight[w].p.job_id,
                                                    inflight[w].p.ring_label)}

\* C30: when a step of an item fails during a drain pass, the queue file
\* saved at the end of the pass holds the items of the loaded queue from the
\* failing one on: the item that failed and every item after it.
C30_DrainKeepsUnprocessed ==
    [][(eng.pc = "drain" /\ StepFailed) =>
            \A n \in eng.i..Len(queue) :
                \E m \in DOMAIN queue' : CoordOf(queue'[m]) = CoordOf(queue[n])]_vars

C32_NoDiamondAfterStop ==
    [][\A d \in diamonds' \ diamonds :
            \A j \in jobs : j.id = d.job_id => j.status # "PROCESSING"]_vars

\* original_ready of every image row.
ReadyOf(images) == {<<r.id, r.original_ready>> : r \in images}

\* The step changed original_ready of a row that was there.
ReadyFlipped ==
    /\ diamonds' = diamonds
    /\ ReadyOf(diamond_images') # ReadyOf(diamond_images)

\* The confirm-originals requests that succeed in this state and whose
\* outcome is the next state: the calls the step may have been.
ConfirmsTaken ==
    {p \in ConfirmPayloads :
        \E first \in {confirm_originals_out(DEVICE_API_KEY, p, 0)} :
            first.code = 200 /\ first.diamond_images = diamond_images'}

\* C33: a confirm-originals call that succeeds leaves the storage and every
\* table but diamond_images as they are, and the same call made again in
\* the state it leaves succeeds with the same confirmed list and leaves
\* original_ready of every image row as the first call left it.
C33_ConfirmRepeatable ==
    [][ReadyFlipped =>
        \E taken \in {ConfirmsTaken} :
            /\ taken # {}
            /\ UNCHANGED <<orgs, devices, jobs, rings, diamonds, storage>>
            /\ \A p \in taken :
                \E first \in {confirm_originals_out(DEVICE_API_KEY, p, 0)} :
                \E again \in {confirm_originals_out(DEVICE_API_KEY, p, 0)'} :
                    /\ again.code = 200
                    /\ again.body.confirmed = first.body.confirmed
                    /\ ReadyOf(again.diamond_images) = ReadyOf(diamond_images')]_vars

\* C33 witness: both originals of a Diamond are in the bucket and both rows
\* are ready after a confirm-originals for both types, which succeeds again.
C33_Witness ==
    \E p \in ConfirmPayloads :
        /\ Len(p.image_types) = 2
        /\ confirm_originals_out(DEVICE_API_KEY, p, 0).code = 200
        /\ confirm_originals_out(DEVICE_API_KEY, p, 0).diamond_images = diamond_images
        /\ \E r \in diamond_images : r.original_ready

\* C34: in every step the Diamonds there were stay as they are, and an image
\* row that changes keeps its id, diamond_id, image_type, storage_path,
\* preview_storage_path and preview_ready: only original_ready and
\* original_uploaded_at differ, the step is a confirm-originals that
\* succeeded, the row belongs to the Diamond the request addresses, and its
\* image type is one the request names.
C34_OnlyReadinessMutates ==
    [][/\ diamonds \subseteq diamonds'
       /\ \A r \in diamond_images \ diamond_images' :
            /\ \E r2 \in diamond_images' \ diamond_images :
                    r2 = [r EXCEPT !.original_ready = r2.original_ready,
                                   !.original_uploaded_at = r2.original_uploaded_at]
            /\ \E p \in ConfirmsTaken :
                    /\ r.image_type \in Range(p.image_types)
                    /\ \E d \in CoordDiamonds(p.job_id, p.ring_label, p.slot_index) :
                            r.diamond_id = d.id]_vars

\* C34 witness: two Diamonds with their image rows, the rows of one ready
\* after a confirm-originals, the rows of the other not.
C34_Witness ==
    \E d1 \in diamonds : \E d2 \in diamonds :
        /\ d1 # d2
        /\ \A r \in ImagesOf(d1.id) : r.original_ready
        /\ Cardinality(ImagesOf(d1.id)) = 2
        /\ \A r \in ImagesOf(d2.id) : ~r.original_ready
        /\ \E r \in ImagesOf(d2.id) : r.storage_path \in storage

\* The step is the originals step of the item in hand going through: both
\* PUTs were issued and answered.
OriginalsPutDone ==
    /\ eng.pc \in ItemPhases
    /\ NextStep(eng.item, ModeNow) = "originals"
    /\ eng'.pc = eng.pc
    /\ eng'.item.state.original_uploaded

\* C35: the engine PUTs at most once to a signed URL: when the originals
\* step of an item goes through, neither of its two signed URLs has taken
\* a PUT before, that is, neither object is in the bucket yet (an object
\* gets there only through the PUT to the signed URL issued for it).
C35_OnePutPerSignedUrl ==
    [][OriginalsPutDone =>
            /\ eng.item.signed.uv_original_signed_url[2] \notin storage
            /\ eng.item.signed.aset_original_signed_url[2] \notin storage]_vars

\* C36: when the delayed-originals phase of a run is over, every slot that
\* was ingested during the run and put aside for that phase is either
\* delivered (both rows original_ready, which originals_confirmed implies)
\* or in the queue file.
C36_DelayedSlotsConfirmedOrQueued ==
    [][(eng.pc = "delayed" /\ eng'.pc = "stop") =>
            \A c \in {CoordOf(eng.delayed[k]) : k \in DOMAIN eng.delayed} :
                \/ Delivered(c)'
                \/ \E n \in DOMAIN queue' : CoordOf(queue'[n]) = c]_vars

====
